---- MODULE Spec2Model ----
(***************************************************************************)
(* A model of sftp-repl: the glob-based remote path resolver               *)
(* (search_glob, expand_path_globs), the per-turn DirectoryCache, and the  *)
(* REPL loop with its command handlers.                                    *)
(*                                                                         *)
(* Strings are TLA+ strings; TLC evaluates Len, Head, Tail, SubSeq and \o  *)
(* on them, so text is processed character by character as the code does. *)
(* A remote path is a sequence of names below the remote root; the remote  *)
(* tree is a function from the existing paths to their kind.               *)
(***************************************************************************)
EXTENDS Integers, Sequences, FiniteSets, TLC

VARIABLES
    remote,     \* the remote tree: [path -> "dir" | "file"], root <<>> included
    rcwd,       \* the remote working directory (SFTPClient._cwd), an absolute path
    lfs,        \* the local tree below the directory the program runs in
    tmp,        \* the number of cp staging directories that exist
    pc,         \* where _repl_main is: "loop_top", "prompt", "input", "exited", "crashed"
    user_input, \* the last line submitted
    out,        \* what the last line's command printed
    rpc,        \* the remote calls the last line's command issued, in order
    turn,       \* how many lines _repl_main has read
    n_complete, \* how often readline has called the completer this turn
    exc,        \* the exception that left _repl_main: "none", "Exit", "IOError", "ValueError"
    cache,      \* the DirectoryCache of the current turn
    c_rpc,      \* the remote calls the cache has issued this turn: [call -> count]
    c_op,       \* the last DirectoryCache method called, with its path
    c_ret,      \* what that call returned
    c_n,        \* how often DirectoryCache.listdir was called this turn, per path
    g_done,     \* expand_path_globs has been called
    g_in,       \* expand_path_globs: the pattern strings of the last call
    g_out,      \* expand_path_globs: its outcome (matches, or an IOError)
    t_pc,       \* the tokenizer on its own: "start", "tokenized", "located"
    t_line,     \* tokenize: the line
    t_tokens,   \* tokenize: what it returned, or that shlex.split raised
    t_off,      \* locate_full_token: the begin and end offsets asked for
    t_ret,      \* locate_full_token: the token returned, or that an assert failed
    h_done,     \* human_readable_size on its own: it has been called
    h_size,     \* human_readable_size: the size in bytes
    h_out,      \* human_readable_size: the text returned
    x_pc,       \* one transfer of get or put on its own: "idle", "start", "transferring", "returned", "done", "failed"
    x_op,       \* the transfer: "get" or "put"
    x_size,     \* the transfer: the length of the file in bytes
    x_sent,     \* the transfer: the bytes copied so far
    update_called, \* get, put: the flag that _update sets
    progress    \* the reports progress.update has received: <<completed, total>>

cvars == <<cache, c_rpc, c_op, c_ret, c_n>>
gvars == <<g_done, g_in, g_out>>
tvars == <<t_pc, t_line, t_tokens, t_off, t_ret>>
hvars == <<h_done, h_size, h_out>>
xvars == <<x_pc, x_op, x_size, x_sent, update_called, progress>>
rvars == <<lfs, tmp, pc, user_input, out, rpc, exc, turn, n_complete>>
vars == <<remote, rcwd, rvars, cvars, gvars, tvars, hvars, xvars>>

(***************************************************************************)
(* Text helpers                                                            *)
(***************************************************************************)

\* s.startswith(prefix)
StartsWith(s, prefix) ==
    Len(prefix) <= Len(s) /\ SubSeq(s, 1, Len(prefix)) = prefix

\* s.split("/"): the pieces between slashes, empty pieces included
RECURSIVE SplitSlash(_, _)
SplitSlash(s, cur) ==
    IF s = "" THEN <<cur>>
    ELSE IF Head(s) = "/" THEN <<cur>> \o SplitSlash(Tail(s), "")
    ELSE SplitSlash(Tail(s), cur \o Head(s))

RECURSIVE DropEmptyAndDot(_)
DropEmptyAndDot(ps) ==
    IF ps = <<>> THEN <<>>
    ELSE IF Head(ps) = "" \/ Head(ps) = "." THEN DropEmptyAndDot(Tail(ps))
    ELSE <<Head(ps)>> \o DropEmptyAndDot(Tail(ps))

\* str.strip(): leading and trailing whitespace removed
IsSpace(ch) == ch \in {" ", "\t"}

RECURSIVE LStrip(_)
LStrip(s) == IF s # "" /\ IsSpace(Head(s)) THEN LStrip(Tail(s)) ELSE s

RECURSIVE RStrip(_)
RStrip(s) ==
    IF s # "" /\ IsSpace(SubSeq(s, Len(s), Len(s)))
    THEN RStrip(SubSeq(s, 1, Len(s) - 1)) ELSE s

Strip(s) == RStrip(LStrip(s))

\* s.find(sub): the 0-based offset of the first occurrence, or -1
RECURSIVE FindFrom(_, _, _)
FindFrom(s, sub, i) ==
    IF i + Len(sub) > Len(s) THEN -1
    ELSE IF SubSeq(s, i + 1, i + Len(sub)) = sub THEN i
    ELSE FindFrom(s, sub, i + 1)

Find(s, sub) == FindFrom(s, sub, 0)

\* The order of characters (their code points), for sorted()
Alphabet == " !\"'*-./0123456789?[\\]abcdefghijklmnopqrstuvwxyz"

Ord(ch) == LET i == Find(Alphabet, ch) IN IF i < 0 THEN Len(Alphabet) ELSE i

\* a < b for strings, as Python compares them
RECURSIVE StrLess(_, _)
StrLess(a, b) ==
    IF b = "" THEN FALSE
    ELSE IF a = "" THEN TRUE
    ELSE IF Head(a) = Head(b) THEN StrLess(Tail(a), Tail(b))
    ELSE Ord(Head(a)) < Ord(Head(b))

(***************************************************************************)
(* shlex.split(line): POSIX word splitting.  The outcome is [err, tokens]; *)
(* err is TRUE when shlex raises ValueError ("No closing quotation", "No   *)
(* escaped character").  state is " " between words, "a" inside a word, a  *)
(* quote character inside quotes and "\\" after a backslash.               *)
(***************************************************************************)
IsQuote(ch) == ch \in {"'", "\""}

RECURSIVE shlex_read(_, _, _, _, _, _)
shlex_read(s, state, escapedstate, token, quoted, acc) ==
    IF s = ""
    THEN IF IsQuote(state) \/ state = "\\" THEN [err |-> TRUE, tokens |-> acc]
         ELSE IF state = "a" /\ (token # "" \/ quoted)
              THEN [err |-> FALSE, tokens |-> Append(acc, token)]
         ELSE [err |-> FALSE, tokens |-> acc]
    ELSE LET ch == Head(s)
             rest == Tail(s)
         IN
         IF state = " "
         THEN IF IsSpace(ch) THEN shlex_read(rest, " ", escapedstate, token, quoted, acc)
              ELSE IF ch = "\\" THEN shlex_read(rest, "\\", "a", token, quoted, acc)
              ELSE IF IsQuote(ch) THEN shlex_read(rest, ch, escapedstate, token, quoted, acc)
              ELSE shlex_read(rest, "a", escapedstate, ch, quoted, acc)
         ELSE IF IsQuote(state)
         THEN IF ch = state THEN shlex_read(rest, "a", escapedstate, token, TRUE, acc)
              ELSE IF ch = "\\" /\ state = "\""
                   THEN shlex_read(rest, "\\", state, token, TRUE, acc)
              ELSE shlex_read(rest, state, escapedstate, token \o ch, TRUE, acc)
         ELSE IF state = "\\"
         THEN IF IsQuote(escapedstate) /\ ch # "\\" /\ ch # escapedstate
              THEN shlex_read(rest, escapedstate, escapedstate, (token \o "\\") \o ch, quoted, acc)
              ELSE shlex_read(rest, escapedstate, escapedstate, token \o ch, quoted, acc)
         ELSE \* state = "a"
              IF IsSpace(ch)
              THEN IF token # "" \/ quoted
                   THEN shlex_read(rest, " ", escapedstate, "", FALSE, Append(acc, token))
                   ELSE shlex_read(rest, " ", escapedstate, token, quoted, acc)
              ELSE IF IsQuote(ch) THEN shlex_read(rest, ch, escapedstate, token, quoted, acc)
              ELSE IF ch = "\\" THEN shlex_read(rest, "\\", "a", token, quoted, acc)
              ELSE shlex_read(rest, "a", escapedstate, token \o ch, quoted, acc)

shlex_split(line) == shlex_read(line, " ", " ", "", FALSE, <<>>)

(***************************************************************************)
(* utils.human_readable_size                                               *)
(***************************************************************************)
\* str(n) of a natural number
RECURSIVE IntStr(_)
IntStr(n) ==
    IF n < 10 THEN SubSeq("0123456789", n + 1, n + 1)
    ELSE IntStr(n \div 10) \o SubSeq("0123456789", (n % 10) + 1, (n % 10) + 1)

\* num / den rounded to an integer as the format specifications of Python
\* round: to the nearest, a tie to the even neighbour.  size / 1024**k is
\* exact in a float for every size below 2**53, so the value rounded is the
\* quotient itself
RoundHalfEven(num, den) ==
    LET q == num \div den
        r == num % den
    IN IF 2 * r > den \/ (2 * r = den /\ q % 2 = 1) THEN q + 1 ELSE q

\* f"{size / unit:.0f}"
Format0f(size, unit) == IntStr(RoundHalfEven(size, unit))

\* f"{size / unit:.1f}"
Format1f(size, unit) ==
    LET tenths == RoundHalfEven(10 * size, unit) IN
    (IntStr(tenths \div 10) \o ".") \o IntStr(tenths % 10)

\* human_readable_size(size); ssize > 10.0 is size > 10 * unit
human_readable_size(size) ==
    LET scale == IF size < 1024 THEN [unit |-> 1, label |-> "B"]
                 ELSE IF size < 1024 ^ 2 THEN [unit |-> 1024, label |-> "K"]
                 ELSE IF size < 1024 ^ 3 THEN [unit |-> 1024 ^ 2, label |-> "M"]
                 ELSE IF size \div 1024 < 1024 ^ 3 THEN [unit |-> 1024 ^ 3, label |-> "G"]
                 ELSE [unit |-> 1024 ^ 4, label |-> "T"]
    IN IF size > 10 * scale.unit \/ size < 1024
       THEN Format0f(size, scale.unit) \o scale.label
       ELSE Format1f(size, scale.unit) \o scale.label

(***************************************************************************)
(* pathlib.PurePath (posix flavour), as the handlers use it                *)
(***************************************************************************)

\* PurePath(s): root is "/" for a rooted path; "." and empty segments are
\* dropped, ".." is kept.
PurePath(s) ==
    [root |-> StartsWith(s, "/"), segs |-> DropEmptyAndDot(SplitSlash(s, ""))]

\* path.parts: a rooted path's parts START WITH the root "/" itself
\* (PurePath("/a/b").parts == ("/", "a", "b")).
Parts(path) == IF path.root THEN <<"/">> \o path.segs ELSE path.segs

\* path / name
Join(path, name) == [root |-> path.root, segs |-> Append(path.segs, name)]

\* PurePath(path.root or "."): the directory a pattern's walk starts in
StartDir(path) == [root |-> path.root, segs |-> <<>>]

\* path.parent: the parent of "." is ".", the parent of "/" is "/"
PathParent(path) ==
    IF path.segs = <<>> THEN path
    ELSE [root |-> path.root, segs |-> SubSeq(path.segs, 1, Len(path.segs) - 1)]

\* path.name
PathName(path) == IF path.segs = <<>> THEN "" ELSE path.segs[Len(path.segs)]

\* path / other.name (joining the empty name of "." leaves the path)
JoinName(path, name) == IF name = "" THEN path ELSE Join(path, name)

\* str(path)
RECURSIVE JoinSlash(_)
JoinSlash(segs) ==
    IF segs = <<>> THEN ""
    ELSE IF Len(segs) = 1 THEN segs[1]
    ELSE (segs[1] \o "/") \o JoinSlash(Tail(segs))

StrOf(path) ==
    IF path.root THEN "/" \o JoinSlash(path.segs)
    ELSE IF path.segs = <<>> THEN "."
    ELSE JoinSlash(path.segs)

(***************************************************************************)
(* The remote filesystem (the SFTP server behind SFTPClient)               *)
(***************************************************************************)

Exists(tree, p) == p \in DOMAIN tree
IsDirAt(tree, p) == p \in DOMAIN tree /\ tree[p] = "dir"

Parent(p) == IF p = <<>> THEN <<>> ELSE SubSeq(p, 1, Len(p) - 1)

NoPath == <<"?">>

\* The server's resolution of a path: every segment but the last is looked up
\* in a directory; ".." steps to the parent (the root's parent is the root).
RECURSIVE Walk(_, _, _)
Walk(tree, at, segs) ==
    IF segs = <<>> THEN (IF Exists(tree, at) THEN at ELSE NoPath)
    ELSE IF ~IsDirAt(tree, at) THEN NoPath
    ELSE IF Head(segs) = ".." THEN Walk(tree, Parent(at), Tail(segs))
    ELSE Walk(tree, Append(at, Head(segs)), Tail(segs))

\* SFTPClient._adjust_cwd: a relative path is taken below the working directory
Resolve(fs, path) ==
    Walk(fs.tree, IF path.root THEN <<>> ELSE fs.cwd, path.segs)

\* The names the server lists come in this order
NameOrder == <<".h", "a", "b.txt", "c", "d", "e", "l1", "l2", "out", "x", "z">>

RECURSIVE ListingFrom(_, _, _)
ListingFrom(tree, dir, i) ==
    IF i > Len(NameOrder) THEN <<>>
    ELSE LET p == Append(dir, NameOrder[i]) IN
         (IF Exists(tree, p)
             THEN <<[filename |-> NameOrder[i], kind |-> tree[p]]>>
             ELSE <<>>)
         \o ListingFrom(tree, dir, i + 1)

\* sftp_client.stat(str(path)): the attributes, or an IOError
SftpStat(fs, path) ==
    LET p == Resolve(fs, path) IN
    IF p = NoPath THEN [err |-> TRUE]
    ELSE [err |-> FALSE, attr |-> [filename |-> "", kind |-> fs.tree[p]]]

\* sftp_client.listdir_attr(str(path)): the entries, or an IOError
SftpListdirAttr(fs, path) ==
    LET p == Resolve(fs, path) IN
    IF p = NoPath \/ fs.tree[p] # "dir" THEN [err |-> TRUE]
    ELSE [err |-> FALSE, files |-> ListingFrom(fs.tree, p, 1)]

\* completions.is_dir
is_dir(attr) == attr.kind = "dir"

(***************************************************************************)
(* fnmatch.fnmatch(name, pat) on posix: "*" any run of characters, "?" any *)
(* one character, anything else itself; a leading dot is not special.      *)
(***************************************************************************)
RECURSIVE fnmatch(_, _)
fnmatch(name, pat) ==
    IF pat = "" THEN name = ""
    ELSE IF Head(pat) = "*"
         THEN fnmatch(name, Tail(pat)) \/ (name # "" /\ fnmatch(Tail(name), pat))
    ELSE IF name = "" THEN FALSE
    ELSE IF Head(pat) = "?" THEN fnmatch(Tail(name), Tail(pat))
    ELSE Head(name) = Head(pat) /\ fnmatch(Tail(name), Tail(pat))

(***************************************************************************)
(* The remote calls that change the tree, and the transfers.  Each returns *)
(* [err, ...]: err is TRUE when the call raises IOError.                   *)
(***************************************************************************)
Front(q) == SubSeq(q, 1, Len(q) - 1)
Last(q) == q[Len(q)]
IsPrefixOf(p, q) == Len(p) <= Len(q) /\ SubSeq(q, 1, Len(p)) = p

\* Where a path names an entry that may not exist yet: its directory must
WalkNew(tree, at, segs) ==
    IF segs = <<>> \/ Last(segs) = ".." THEN Walk(tree, at, segs)
    ELSE LET dir == Walk(tree, at, Front(segs)) IN
         IF dir = NoPath \/ tree[dir] # "dir" THEN NoPath ELSE Append(dir, Last(segs))

ResolveNew(fs, path) ==
    WalkNew(fs.tree, IF path.root THEN <<>> ELSE fs.cwd, path.segs)

Without(tree, gone) == [q \in (DOMAIN tree) \ gone |-> tree[q]]
Under(tree, p) == {q \in DOMAIN tree : IsPrefixOf(p, q)}
Children(tree, p) == {q \in Under(tree, p) : Len(q) = Len(p) + 1}

\* sftp_client.remove(str(path))
SftpRemove(fs, path) ==
    LET p == ResolveNew(fs, path) IN
    IF p = NoPath \/ p \notin DOMAIN fs.tree \/ fs.tree[p] = "dir"
    THEN [err |-> TRUE, tree |-> fs.tree]
    ELSE [err |-> FALSE, tree |-> Without(fs.tree, {p})]

\* sftp_client.rmdir(str(path))
SftpRmdir(fs, path) ==
    LET p == ResolveNew(fs, path) IN
    IF p = NoPath \/ p = <<>> \/ p \notin DOMAIN fs.tree
       \/ fs.tree[p] # "dir" \/ Children(fs.tree, p) # {}
    THEN [err |-> TRUE, tree |-> fs.tree]
    ELSE [err |-> FALSE, tree |-> Without(fs.tree, {p})]

\* sftp_client.mkdir(str(path))
SftpMkdir(fs, path) ==
    LET p == ResolveNew(fs, path) IN
    IF p = NoPath \/ p \in DOMAIN fs.tree
    THEN [err |-> TRUE, tree |-> fs.tree]
    ELSE [err |-> FALSE, tree |-> (p :> "dir") @@ fs.tree]

\* sftp_client.posix_rename(str(src), str(dst)): rename(2) on the server
SftpPosixRename(fs, src, dst) ==
    LET s == ResolveNew(fs, src)
        d == ResolveNew(fs, dst)
        t == fs.tree
    IN
    IF \/ s = NoPath \/ d = NoPath \/ s = <<>> \/ s \notin DOMAIN t
       \/ (s # d /\ IsPrefixOf(s, d))
       \/ (d \in DOMAIN t /\ s # d /\
             \/ (t[s] = "dir" /\ (t[d] # "dir" \/ Children(t, d) # {}))
             \/ (t[s] # "dir" /\ t[d] = "dir"))
    THEN [err |-> TRUE, tree |-> t]
    ELSE IF s = d THEN [err |-> FALSE, tree |-> t]
    ELSE LET moved == Under(t, s)
             kept == Without(t, moved \cup {d})
             to(q) == d \o SubSeq(q, Len(s) + 1, Len(q))
         IN [err |-> FALSE,
             tree |-> [q \in (DOMAIN kept) \cup {to(m) : m \in moved} |->
                          IF q \in DOMAIN kept THEN kept[q]
                          ELSE t[CHOOSE m \in moved : to(m) = q]]]

\* sftp_client.chdir(path)
SftpChdir(fs, path) ==
    LET p == Resolve(fs, path) IN
    IF p = NoPath \/ fs.tree[p] # "dir"
    THEN [err |-> TRUE, cwd |-> fs.cwd]
    ELSE [err |-> FALSE, cwd |-> p]

\* The local filesystem is a tree of the same form, below the directory the
\* program runs in.
LocalFs(local) == [tree |-> local, cwd |-> <<>>]

\* Path(p).is_dir()
LocalIsDir(local, path) ==
    LET p == Resolve(LocalFs(local), path) IN p # NoPath /\ local[p] = "dir"

\* sftp_client.get(remotepath, localpath): the local file is opened for writing
\* first, then the remote file is read into it.
SftpGet(fs, local, rpath, lpath) ==
    LET l == ResolveNew(LocalFs(local), lpath)
        r == Resolve(fs, rpath)
    IN
    IF l = NoPath \/ (l \in DOMAIN local /\ local[l] = "dir")
    THEN [err |-> TRUE, local |-> local]
    ELSE IF r = NoPath \/ fs.tree[r] = "dir"
    THEN [err |-> TRUE, local |-> (l :> "file") @@ local]
    ELSE [err |-> FALSE, local |-> (l :> "file") @@ local]

\* sftp_client.put(localpath, remotepath): the local file is read, the remote
\* file is opened for writing.
SftpPut(fs, local, lpath, rpath) ==
    LET l == Resolve(LocalFs(local), lpath)
        r == ResolveNew(fs, rpath)
    IN
    IF l = NoPath \/ local[l] = "dir" \/ r = NoPath
       \/ (r \in DOMAIN fs.tree /\ fs.tree[r] = "dir")
    THEN [err |-> TRUE, tree |-> fs.tree]
    ELSE [err |-> FALSE, tree |-> (r :> "file") @@ fs.tree]

\* glob.glob(src) for a one-segment src: the names in the local directory that
\* match, dot-files only for a pattern that starts with a dot
RECURSIVE LocalGlobFrom(_, _, _)
LocalGlobFrom(local, pat, i) ==
    IF i > Len(NameOrder) THEN <<>>
    ELSE (IF /\ <<NameOrder[i]>> \in DOMAIN local
             /\ fnmatch(NameOrder[i], pat)
             /\ (Head(NameOrder[i]) = "." => Head(pat) = ".")
          THEN <<NameOrder[i]>> ELSE <<>>)
         \o LocalGlobFrom(local, pat, i + 1)

LocalGlob(local, pat) == LocalGlobFrom(local, pat, 1)

(***************************************************************************)
(* search_glob and expand_path_globs                                       *)
(* An outcome is [err, m, rpc]: err is TRUE when an IOError left the call, *)
(* m the matches (path, attributes), rpc the remote calls issued, in order.*)
(***************************************************************************)
Call(op, path) == [op |-> op, path |-> path, to |-> path]
\* A transfer or a rename: from path to another
CallTo(op, path, to) == [op |-> op, path |-> path, to |-> to]

\* A matcher that hides dot-files from wildcards, as a shell's glob does
Matches_hidden(file, pat) ==
    /\ fnmatch(file.filename, pat)
    /\ (Head(file.filename) = "." => Head(pat) = ".")

\* fnmatch.fnmatch(file.filename, glob_parts[0])
Matches(file, pat) == fnmatch(file.filename, pat)

RECURSIVE search_glob(_, _, _)
RECURSIVE search_glob_loop(_, _, _, _, _, _)

search_glob_loop(fs, current_dir, glob_parts, files, i, acc) ==
    IF i > Len(files) THEN acc
    ELSE LET file == files[i] IN
      IF ~Matches(file, glob_parts[1])
      THEN search_glob_loop(fs, current_dir, glob_parts, files, i + 1, acc)
      ELSE IF Len(glob_parts) = 1
      THEN search_glob_loop(fs, current_dir, glob_parts, files, i + 1,
               [acc EXCEPT !.m = Append(@, [path |-> Join(current_dir, file.filename),
                                            attr |-> file])])
      ELSE LET r == search_glob(fs, Join(current_dir, file.filename), Tail(glob_parts)) IN
           IF r.err
           THEN [err |-> TRUE, m |-> <<>>, rpc |-> acc.rpc \o r.rpc]
           ELSE search_glob_loop(fs, current_dir, glob_parts, files, i + 1,
                    [acc EXCEPT !.m = @ \o r.m, !.rpc = @ \o r.rpc])

search_glob(fs, current_dir, glob_parts) ==
    IF glob_parts = <<>>
    THEN LET s == SftpStat(fs, current_dir) IN
         IF s.err
         THEN [err |-> TRUE, m |-> <<>>, rpc |-> <<Call("stat", current_dir)>>]
         ELSE [err |-> FALSE, m |-> <<[path |-> current_dir, attr |-> s.attr]>>,
               rpc |-> <<Call("stat", current_dir)>>]
    ELSE IF Head(glob_parts) = ".."
    THEN search_glob(fs, Join(current_dir, ".."), Tail(glob_parts))
    ELSE LET l == SftpListdirAttr(fs, current_dir) IN
         IF l.err
         THEN [err |-> TRUE, m |-> <<>>, rpc |-> <<Call("listdir", current_dir)>>]
         ELSE search_glob_loop(fs, current_dir, glob_parts, l.files, 1,
                  [err |-> FALSE, m |-> <<>>, rpc |-> <<Call("listdir", current_dir)>>])

RECURSIVE expand_path_globs(_, _)
expand_path_globs(paths, fs) ==
    IF paths = <<>> THEN [err |-> FALSE, m |-> <<>>, rpc |-> <<>>]
    ELSE LET r == search_glob(fs, StartDir(Head(paths)), Parts(Head(paths))) IN
         IF r.err THEN r
         ELSE LET rest == expand_path_globs(Tail(paths), fs) IN
              IF rest.err
              THEN [err |-> TRUE, m |-> <<>>, rpc |-> r.rpc \o rest.rpc]
              ELSE [err |-> FALSE, m |-> r.m \o rest.m, rpc |-> r.rpc \o rest.rpc]

RECURSIVE MapPurePath(_)
MapPurePath(strs) ==
    IF strs = <<>> THEN <<>> ELSE <<PurePath(Head(strs))>> \o MapPurePath(Tail(strs))

(***************************************************************************)
(* completions.DirectoryCache                                              *)
(* _files_by_directory and _files_by_fullname are keyed by PurePosixPath;  *)
(* _cwd is None until the first read.  A method's outcome is               *)
(* [cache, ret, rpc]: the cache after the call, the value returned and the *)
(* remote calls issued.                                                    *)
(***************************************************************************)
\* An optional value: None, or <<value>>
None == <<>>

\* DirectoryCache(sftp_client): the dataclass defaults
DirectoryCache ==
    [files_by_directory |-> <<>>, files_by_fullname |-> <<>>, cwd |-> None]

\* d[k] = v added to a dict
Put(d, k, v) == (k :> v) @@ d

\* A listdir that does not remember a failed listing
listdir_forgets_failure(c, fs, path) ==
    IF path \in DOMAIN c.files_by_directory
    THEN [cache |-> c, ret |-> c.files_by_directory[path], rpc |-> <<>>]
    ELSE LET l == SftpListdirAttr(fs, path) IN
         IF l.err
         THEN [cache |-> c, ret |-> <<>>, rpc |-> <<Call("listdir", path)>>]
         ELSE [cache |-> [c EXCEPT !.files_by_directory = Put(@, path, l.files)],
               ret |-> l.files, rpc |-> <<Call("listdir", path)>>]

\* DirectoryCache.listdir
listdir(c, fs, path) ==
    IF path \in DOMAIN c.files_by_directory
    THEN [cache |-> c, ret |-> c.files_by_directory[path], rpc |-> <<>>]
    ELSE LET l == SftpListdirAttr(fs, path)
             files == IF l.err THEN <<>> ELSE l.files
         IN [cache |-> [c EXCEPT !.files_by_directory = Put(@, path, files)],
             ret |-> files, rpc |-> <<Call("listdir", path)>>]

\* The entries of a listing that carry the name (the for loop returns at the first)
Named(files, name) == {i \in 1..Len(files) : files[i].filename = name}

\* DirectoryCache.is_directory
is_directory(c, fs, path) ==
    IF path \in DOMAIN c.files_by_directory
    THEN [cache |-> c, ret |-> TRUE, rpc |-> <<>>]
    ELSE IF /\ PathParent(path) \in DOMAIN c.files_by_directory
            /\ Named(c.files_by_directory[PathParent(path)], PathName(path)) # {}
    THEN LET files == c.files_by_directory[PathParent(path)]
             i == CHOOSE j \in Named(files, PathName(path)) :
                      \A k \in Named(files, PathName(path)) : j <= k
         IN [cache |-> c, ret |-> is_dir(files[i]), rpc |-> <<>>]
    ELSE IF path \in DOMAIN c.files_by_fullname
    THEN [cache |-> c, ret |-> is_dir(c.files_by_fullname[path]), rpc |-> <<>>]
    ELSE LET s == SftpStat(fs, path) IN
         IF s.err
         THEN [cache |-> c, ret |-> FALSE, rpc |-> <<Call("stat", path)>>]
         ELSE [cache |-> [c EXCEPT !.files_by_fullname = Put(@, path, s.attr)],
               ret |-> is_dir(s.attr), rpc |-> <<Call("stat", path)>>]

\* A cwd property that asks the server every time
cache_cwd_asks_again(c, fs) ==
    [cache |-> [c EXCEPT !.cwd = <<fs.cwd>>], ret |-> fs.cwd,
     rpc |-> <<Call("getcwd", PurePath("."))>>]

\* DirectoryCache.cwd
cache_cwd(c, fs) ==
    IF c.cwd = None
    THEN [cache |-> [c EXCEPT !.cwd = <<fs.cwd>>], ret |-> fs.cwd,
          rpc |-> <<Call("getcwd", PurePath("."))>>]
    ELSE [cache |-> c, ret |-> c.cwd[1], rpc |-> <<>>]

\* A clear_cache that keeps the cache it has
clear_cache_keeps(c) == c

\* ConsoleInteractor.clear_cache: a new DirectoryCache for the next turn
clear_cache(c) == DirectoryCache

\* Call counts
NoCalls == <<>>
Count(bag, k) == IF k \in DOMAIN bag THEN bag[k] ELSE 0
Tally(bag, k) == (k :> (Count(bag, k) + 1)) @@ bag

RECURSIVE TallyAll(_, _)
TallyAll(bag, calls) ==
    IF calls = <<>> THEN bag ELSE TallyAll(Tally(bag, Head(calls)), Tail(calls))

(***************************************************************************)
(* The command handlers.  A handler takes the world w = [tree, cwd, local, *)
(* tmp, out, rpc, exc] and the argument tokens and returns the world after *)
(* it: tree and cwd are the remote side, local the local tree, tmp the     *)
(* number of staging directories that exist, out what was printed, rpc the *)
(* remote calls issued, exc the exception that left the handler ("none",   *)
(* "IOError" or "ParserError").                                            *)
(***************************************************************************)
FsOf(w) == [tree |-> w.tree, cwd |-> w.cwd]

\* console.print(...)
Say(w, kind, text) == [w EXCEPT !.out = Append(@, [kind |-> kind, text |-> text, names |-> <<>>])]
SayNames(w, kind, text, names) ==
    [w EXCEPT !.out = Append(@, [kind |-> kind, text |-> text, names |-> names])]
Rpc(w, calls) == [w EXCEPT !.rpc = @ \o calls]
Raise(w, e) == [w EXCEPT !.exc = e]

\* sorted(items, key=...): a stable insertion sort of [key, val] pairs
RECURSIVE InsertByKey(_, _)
InsertByKey(sorted, item) ==
    IF sorted = <<>> THEN <<item>>
    ELSE IF StrLess(item.key, Head(sorted).key) THEN <<item>> \o sorted
    ELSE <<Head(sorted)>> \o InsertByKey(Tail(sorted), item)

RECURSIVE SortByKey(_)
SortByKey(items) ==
    IF items = <<>> THEN <<>>
    ELSE InsertByKey(SortByKey(Front(items)), Last(items))

Vals(items) == [i \in 1..Len(items) |-> items[i].val]

\* sorted(names, key=str.lower); the names of the model are lower case
SortedNames(names) ==
    Vals(SortByKey([i \in 1..Len(names) |-> [key |-> names[i], val |-> names[i]]]))

\* sorted(matching_files, key=lambda pf: (is_dir(pf[1]), str(pf[0]).lower()))
SortedMatches(ms) ==
    Vals(SortByKey([i \in 1..Len(ms) |->
        [key |-> (IF is_dir(ms[i].attr) THEN "1" ELSE "0") \o StrOf(ms[i].path),
         val |-> ms[i]]]))

\* ArgumentParser.parse_args: tokens that start with "-" are options, the rest
\* positionals; [err, help, opts, pos].  maxpos < 0: any number of positionals.
\* Every malformed argument list raises ArgumentError: the parsers are made
\* with exit_on_error=False, and the interpreters this program runs on (it
\* reads readline.backend, new in Python 3.13) raise ArgumentError for a
\* missing or unrecognized argument too, where older ones exited.
IsOption(tok) == Len(tok) > 1 /\ Head(tok) = "-"

RECURSIVE Select(_, _)
Select(args, opt) ==
    IF args = <<>> THEN <<>>
    ELSE (IF IsOption(Head(args)) = opt THEN <<Head(args)>> ELSE <<>>) \o Select(Tail(args), opt)

ArgParse(args, flags, minpos, maxpos) ==
    LET opts == {Select(args, TRUE)[i] : i \in 1..Len(Select(args, TRUE))}
        pos == Select(args, FALSE)
    IN [err |-> \/ opts \ (flags \cup {"--help"}) # {}
                \/ Len(pos) < minpos
                \/ (maxpos >= 0 /\ Len(pos) > maxpos),
        help |-> "--help" \in opts, opts |-> opts, pos |-> pos]

\* A parse_args that prints the help text and lets the handler go on
parse_args_help_goes_on(w, p) ==
    IF p.err THEN Raise(Say(Say(w, "usage", ""), "red", "argument error"), "ParserError")
    ELSE IF p.help THEN Say(w, "help", "")
    ELSE w

\* parse_args(parser, args): usage and the message, or the help text, and
\* ParserError; nothing when the arguments parse
parse_args(w, p) ==
    IF p.err THEN Raise(Say(Say(w, "usage", ""), "red", "argument error"), "ParserError")
    ELSE IF p.help THEN Raise(Say(w, "help", ""), "ParserError")
    ELSE w

\* A decorator that lets the IOError through
handle_io_error_absent(w) == w

\* utils.handle_io_error: the IOError is printed and the handler returns
handle_io_error(w) ==
    IF w.exc = "IOError" THEN Say([w EXCEPT !.exc = "none"], "red", "IOError") ELSE w

\* _list_files
_list_files(w, names, human, long) ==
    IF long
    THEN [w EXCEPT !.out = @ \o [i \in 1..Len(names) |->
              [kind |-> IF human THEN "long-h" ELSE "long",
               text |-> SortedNames(names)[i], names |-> <<>>]]]
    ELSE SayNames(w, "columns", "", SortedNames(names))

FileNames(files) == [i \in 1..Len(files) |-> files[i].filename]

RECURSIVE ls_loop(_, _, _, _, _, _, _)
ls_loop(w, ms, i, multi, prev_listing, human, long) ==
    IF i > Len(ms) THEN w
    ELSE IF is_dir(ms[i].attr)
    THEN LET l == SftpListdirAttr(FsOf(w), ms[i].path)
             w1 == Rpc(w, <<Call("listdir", ms[i].path)>>)
         IN IF l.err THEN Say(w1, "red", "IOError")
            ELSE LET w2 == IF multi
                           THEN Say(w1, "header",
                                    ((IF prev_listing THEN "\n" ELSE "") \o StrOf(ms[i].path)) \o ":")
                           ELSE w1
                 IN ls_loop(_list_files(w2, FileNames(l.files), human, long),
                            ms, i + 1, multi, TRUE, human, long)
    ELSE ls_loop(_list_files(w, <<StrOf(ms[i].path)>>, human, long),
                 ms, i + 1, multi, TRUE, human, long)

\* ls: its own try/except IOError around the expansion and the listing
ls(w, args) ==
    LET p == ArgParse(args, {"-l", "-h"}, 0, -1)
        w1 == parse_args(w, p)
    IN IF w1.exc # "none" THEN w1
       ELSE LET paths == IF p.pos = <<>> THEN <<PurePath(".")>> ELSE MapPurePath(p.pos)
                g == expand_path_globs(paths, FsOf(w1))
                w2 == Rpc(w1, g.rpc)
            IN IF g.err THEN Say(w2, "red", "IOError")
               ELSE ls_loop(w2, SortedMatches(g.m), 1, Len(g.m) > 1, FALSE,
                            "-h" \in p.opts, "-l" \in p.opts)

cd_body(w, args) ==
    LET p == ArgParse(args, {}, 1, 1)
        w1 == parse_args(w, p)
    IN IF w1.exc # "none" THEN w1
       ELSE LET r == SftpChdir(FsOf(w1), PurePath(p.pos[1]))
                w2 == Rpc(w1, <<Call("chdir", PurePath(p.pos[1]))>>)
            IN IF r.err THEN Raise(w2, "IOError") ELSE [w2 EXCEPT !.cwd = r.cwd]

cd(w, args) == handle_io_error(cd_body(w, args))

\* A get loop that ends at the first directory among the matches
get_loop_stops_at_directory(w, ms, i, dst) ==
    LET dirs == {k \in 1..Len(ms) : is_dir(ms[k].attr)}
        upto == IF dirs = {} THEN Len(ms) ELSE (CHOOSE k \in dirs : \A j \in dirs : k <= j) - 1
        cut == SubSeq(ms, 1, upto)
        RECURSIVE fetch(_, _)
        fetch(v, k) ==
            IF k > Len(cut) THEN v
            ELSE LET dst_name == JoinName(dst, PathName(cut[k].path))
                     r == SftpGet(FsOf(v), v.local, cut[k].path, dst_name)
                     v1 == Rpc(v, <<CallTo("get", cut[k].path, dst_name)>>)
                 IN IF r.err THEN Raise(v1, "IOError")
                    ELSE fetch([v1 EXCEPT !.local = r.local], k + 1)
    IN IF dirs = {} THEN fetch(w, 1)
       ELSE Say(fetch(w, 1), "red", StrOf(ms[upto + 1].path) \o " is a directory")

RECURSIVE get_loop(_, _, _, _)
get_loop(w, ms, i, dst) ==
    IF i > Len(ms) THEN w
    ELSE IF is_dir(ms[i].attr)
    THEN get_loop(Say(w, "red", StrOf(ms[i].path) \o " is a directory"), ms, i + 1, dst)
    ELSE LET dst_name == IF LocalIsDir(w.local, dst)
                         THEN JoinName(dst, PathName(ms[i].path)) ELSE dst
             r == SftpGet(FsOf(w), w.local, ms[i].path, dst_name)
             w1 == SayNames(Rpc(w, <<CallTo("get", ms[i].path, dst_name)>>), "fetching", "",
                            <<StrOf(ms[i].path), StrOf(dst_name)>>)
             w2 == [w1 EXCEPT !.local = r.local]
         IN IF r.err THEN Raise(w2, "IOError")
            ELSE get_loop(w2, ms, i + 1, dst)

\* A multi-match check that lets two matches through
get_multi_check_off_by_one(ms, local, dst) == Len(ms) > 2 /\ ~LocalIsDir(local, dst)

\* len(matching_files) > 1 and not args.dst.is_dir()
get_multi_check(ms, local, dst) == Len(ms) > 1 /\ ~LocalIsDir(local, dst)

get_body(w, args) ==
    LET p == ArgParse(args, {}, 1, 2)
        w1 == parse_args(w, p)
    IN IF w1.exc # "none" THEN w1
       ELSE LET src == PurePath(p.pos[1])
                dst == IF Len(p.pos) = 2 THEN PurePath(p.pos[2]) ELSE PurePath(".")
                g == expand_path_globs(<<src>>, FsOf(w1))
                w2 == Rpc(w1, g.rpc)
            IN IF g.err THEN Raise(w2, "IOError")
               ELSE IF g.m = <<>> THEN Say(w2, "red", ("File " \o StrOf(src)) \o " not found")
               ELSE IF get_multi_check(g.m, w2.local, dst)
                    THEN Say(w2, "red", StrOf(dst) \o ": Not a directory")
               ELSE get_loop(w2, g.m, 1, dst)

get(w, args) == handle_io_error(get_body(w, args))

\* dst_attr: the stat of the destination, None when it fails
StatOrNone(w, dst) ==
    LET s == SftpStat(FsOf(w), dst) IN IF s.err THEN None ELSE <<s.attr>>

DstIsDir(dst_attr) == dst_attr # None /\ is_dir(dst_attr[1])

RECURSIVE put_loop(_, _, _, _, _)
put_loop(w, srcs, i, dst, dst_attr) ==
    IF i > Len(srcs) THEN w
    ELSE LET src_path == PurePath(srcs[i])
             dst_name == IF DstIsDir(dst_attr) THEN JoinName(dst, PathName(src_path)) ELSE dst
             r == SftpPut(FsOf(w), w.local, src_path, dst_name)
             w1 == SayNames(Rpc(w, <<CallTo("put", src_path, dst_name)>>), "uploading", "",
                            <<srcs[i], StrOf(dst_name)>>)
         IN IF r.err THEN Raise(w1, "IOError")
            ELSE put_loop([w1 EXCEPT !.tree = r.tree], srcs, i + 1, dst, dst_attr)

put_body(w, args) ==
    LET p == ArgParse(args, {}, 1, 2)
        w1 == parse_args(w, p)
    IN IF w1.exc # "none" THEN w1
       ELSE LET dst == IF Len(p.pos) = 2 THEN PurePath(p.pos[2]) ELSE PurePath(".")
                srcs == LocalGlob(w1.local, p.pos[1])
            IN IF srcs = <<>> THEN Say(w1, "red", ("File " \o p.pos[1]) \o " not found")
               ELSE LET dst_attr == StatOrNone(w1, dst)
                        w2 == Rpc(w1, <<Call("stat", dst)>>)
                    IN IF Len(srcs) > 1 /\ ~DstIsDir(dst_attr)
                       THEN Say(w2, "red", StrOf(dst) \o ": Not a directory")
                       ELSE put_loop(w2, srcs, 1, dst, dst_attr)

\* put carries no handle_io_error decorator and no try/except around the upload
put(w, args) == handle_io_error_absent(put_body(w, args))

\* An rm loop that skips a directory and goes on
RECURSIVE rm_loop_skips_directory(_, _, _)
rm_loop_skips_directory(w, ms, i) ==
    IF i > Len(ms) THEN w
    ELSE IF is_dir(ms[i].attr)
    THEN rm_loop_skips_directory(Say(w, "red", StrOf(ms[i].path) \o ": is a directory"), ms, i + 1)
    ELSE LET r == SftpRemove(FsOf(w), ms[i].path)
             w1 == Rpc(w, <<Call("remove", ms[i].path)>>)
         IN IF r.err THEN Raise(w1, "IOError")
            ELSE rm_loop_skips_directory([w1 EXCEPT !.tree = r.tree], ms, i + 1)

RECURSIVE rm_loop(_, _, _)
rm_loop(w, ms, i) ==
    IF i > Len(ms) THEN w
    ELSE IF is_dir(ms[i].attr) THEN Say(w, "red", StrOf(ms[i].path) \o ": is a directory")
    ELSE LET r == SftpRemove(FsOf(w), ms[i].path)
             w1 == Rpc(w, <<Call("remove", ms[i].path)>>)
         IN IF r.err THEN Raise(w1, "IOError")
            ELSE rm_loop([w1 EXCEPT !.tree = r.tree], ms, i + 1)

rm_body(w, args) ==
    LET p == ArgParse(args, {}, 1, -1)
        w1 == parse_args(w, p)
    IN IF w1.exc # "none" THEN w1
       ELSE LET g == expand_path_globs(MapPurePath(p.pos), FsOf(w1))
                w2 == Rpc(w1, g.rpc)
            IN IF g.err THEN Raise(w2, "IOError") ELSE rm_loop(w2, g.m, 1)

rm(w, args) == handle_io_error(rm_body(w, args))

RECURSIVE rmdir_loop(_, _, _)
rmdir_loop(w, ms, i) ==
    IF i > Len(ms) THEN w
    ELSE IF ~is_dir(ms[i].attr) THEN Say(w, "red", StrOf(ms[i].path) \o ": Not a directory")
    ELSE LET r == SftpRmdir(FsOf(w), ms[i].path)
             w1 == Rpc(w, <<Call("rmdir", ms[i].path)>>)
         IN IF r.err THEN Raise(w1, "IOError")
            ELSE rmdir_loop([w1 EXCEPT !.tree = r.tree], ms, i + 1)

rmdir_body(w, args) ==
    LET p == ArgParse(args, {}, 1, -1)
        w1 == parse_args(w, p)
    IN IF w1.exc # "none" THEN w1
       ELSE LET g == expand_path_globs(MapPurePath(p.pos), FsOf(w1))
                w2 == Rpc(w1, g.rpc)
            IN IF g.err THEN Raise(w2, "IOError") ELSE rmdir_loop(w2, g.m, 1)

rmdir(w, args) == handle_io_error(rmdir_body(w, args))

RECURSIVE mkdir_loop(_, _, _)
mkdir_loop(w, paths, i) ==
    IF i > Len(paths) THEN w
    ELSE LET r == SftpMkdir(FsOf(w), paths[i])
             w1 == Rpc(w, <<Call("mkdir", paths[i])>>)
         IN IF r.err THEN Raise(w1, "IOError")
            ELSE mkdir_loop([w1 EXCEPT !.tree = r.tree], paths, i + 1)

mkdir_body(w, args) ==
    LET p == ArgParse(args, {}, 1, -1)
        w1 == parse_args(w, p)
    IN IF w1.exc # "none" THEN w1 ELSE mkdir_loop(w1, MapPurePath(p.pos), 1)

mkdir(w, args) == handle_io_error(mkdir_body(w, args))

\* with TemporaryDirectory() as tmp_dir: the directory is made on entry
TemporaryDirectory_enter(w) == [w EXCEPT !.tmp = @ + 1]

\* An exit that removes the directory only when the body raised nothing
TemporaryDirectory_exit_on_success(w) ==
    IF w.exc = "none" THEN [w EXCEPT !.tmp = @ - 1] ELSE w

\* ... and removed when the block is left, by return or by exception
TemporaryDirectory_exit(w) == [w EXCEPT !.tmp = @ - 1]

\* The body of "with TemporaryDirectory() as tmp_dir": each match is fetched to
\* tmp_dir / name and uploaded from there
RECURSIVE cp_loop(_, _, _, _, _)
cp_loop(w, ms, i, dst, dst_attr) ==
    IF i > Len(ms) THEN w
    ELSE LET dst_name == IF DstIsDir(dst_attr) THEN JoinName(dst, PathName(ms[i].path)) ELSE dst
             staged == PurePath("/tmp_dir/" \o PathName(ms[i].path))
             src == Resolve(FsOf(w), ms[i].path)
             w1 == Rpc(w, <<CallTo("get", ms[i].path, staged)>>)
         IN IF src = NoPath \/ w.tree[src] = "dir" THEN Raise(w1, "IOError")
            ELSE LET t == ResolveNew(FsOf(w), dst_name)
                     w2 == Rpc(w1, <<CallTo("put", staged, dst_name)>>)
                 IN IF t = NoPath \/ (t \in DOMAIN w.tree /\ w.tree[t] = "dir")
                    THEN Raise(w2, "IOError")
                    ELSE cp_loop([w2 EXCEPT !.tree = (t :> "file") @@ @], ms, i + 1,
                                 dst, dst_attr)

cp_body(w, args) ==
    LET p == ArgParse(args, {}, 2, 2)
        w1 == parse_args(w, p)
    IN IF w1.exc # "none" THEN w1
       ELSE LET src == PurePath(p.pos[1])
                dst == PurePath(p.pos[2])
                g == expand_path_globs(<<src>>, FsOf(w1))
                w2 == Rpc(w1, g.rpc)
            IN IF g.err THEN Raise(w2, "IOError")
               ELSE IF g.m = <<>> THEN Say(w2, "red", ("File " \o StrOf(src)) \o " not found")
               ELSE LET dst_attr == StatOrNone(w2, dst)
                        w3 == Rpc(w2, <<Call("stat", dst)>>)
                    IN IF Len(g.m) > 1 /\ ~DstIsDir(dst_attr)
                       THEN Say(w3, "red", StrOf(dst) \o ": Not a directory")
                       ELSE TemporaryDirectory_exit(
                                cp_loop(TemporaryDirectory_enter(w3), g.m, 1, dst, dst_attr))

cp(w, args) == handle_io_error(cp_body(w, args))

\* An mv loop that renames every match onto dst itself
RECURSIVE mv_loop_onto_dst(_, _, _, _, _)
mv_loop_onto_dst(w, ms, i, dst, dst_attr) ==
    IF i > Len(ms) THEN w
    ELSE LET r == SftpPosixRename(FsOf(w), ms[i].path, dst)
             w1 == Rpc(w, <<CallTo("rename", ms[i].path, dst)>>)
         IN IF r.err THEN Raise(w1, "IOError")
            ELSE mv_loop_onto_dst([w1 EXCEPT !.tree = r.tree], ms, i + 1, dst, dst_attr)

RECURSIVE mv_loop(_, _, _, _, _)
mv_loop(w, ms, i, dst, dst_attr) ==
    IF i > Len(ms) THEN w
    ELSE LET dst_name == IF DstIsDir(dst_attr) THEN JoinName(dst, PathName(ms[i].path)) ELSE dst
             r == SftpPosixRename(FsOf(w), ms[i].path, dst_name)
             w1 == Rpc(w, <<CallTo("rename", ms[i].path, dst_name)>>)
         IN IF r.err THEN Raise(w1, "IOError")
            ELSE mv_loop([w1 EXCEPT !.tree = r.tree], ms, i + 1, dst, dst_attr)

mv_body(w, args) ==
    LET p == ArgParse(args, {}, 2, -1)
        w1 == parse_args(w, p)
    IN IF w1.exc # "none" THEN w1
       ELSE LET dst == PurePath(Last(p.pos))
                g == expand_path_globs(MapPurePath(Front(p.pos)), FsOf(w1))
                w2 == Rpc(w1, g.rpc)
            IN IF g.err THEN Raise(w2, "IOError")
               ELSE LET dst_attr == StatOrNone(w2, dst)
                        w3 == Rpc(w2, <<Call("stat", dst)>>)
                    IN IF Len(g.m) > 1 /\ ~DstIsDir(dst_attr)
                       THEN Say(w3, "red", StrOf(dst) \o ": Not a directory")
                       ELSE mv_loop(w3, g.m, 1, dst, dst_attr)

mv(w, args) == handle_io_error(mv_body(w, args))

\* An alias table whose ll and l leave out -h
ALIAS_without_h == ("ll" :> <<"ls", "-l">>) @@ ("l" :> <<"ls", "-l">>)

\* ALIAS and COMMANDS
ALIAS == ("ll" :> <<"ls", "-l", "-h">>) @@ ("l" :> <<"ls", "-l", "-h">>)

COMMANDS == {"ls", "cd", "get", "put", "rm", "rmdir", "mkdir", "cp", "mv"}

\* COMMANDS[command](sftp_client, *args)
RunCommand(command, w, args) ==
    CASE command = "ls" -> ls(w, args)
      [] command = "cd" -> cd(w, args)
      [] command = "get" -> get(w, args)
      [] command = "put" -> put(w, args)
      [] command = "rm" -> rm(w, args)
      [] command = "rmdir" -> rmdir(w, args)
      [] command = "mkdir" -> mkdir(w, args)
      [] command = "cp" -> cp(w, args)
      [] command = "mv" -> mv(w, args)

(***************************************************************************)
(* Completion: tokenize, locate_full_token, file_completions_for_text,     *)
(* complete                                                                *)
(***************************************************************************)

\* tokenize(line): the tokens of shlex.split with their offsets in the line;
\* [err, tokens], err when shlex.split raises
RECURSIVE tokenize_loop(_, _, _, _)
tokenize_loop(ln, str_tokens, start, tokens) ==
    IF str_tokens = <<>> THEN tokens
    ELSE LET token == Head(str_tokens)
             found == Find(SubSeq(ln, start + 1, Len(ln)), token) + start
         IN tokenize_loop(ln, Tail(str_tokens), found,
                Append(tokens, [text |-> token, start |-> found, end |-> found + Len(token)]))

tokenize(ln) ==
    LET sp == shlex_split(ln) IN
    IF sp.err THEN [err |-> TRUE, tokens |-> <<>>]
    ELSE [err |-> FALSE, tokens |-> tokenize_loop(ln, sp.tokens, 0, <<>>)]

\* tokenize of the single-file script main.py: the offset found in line[start:]
\* is taken as an offset in the line
RECURSIVE main_tokenize_loop(_, _, _, _)
main_tokenize_loop(ln, str_tokens, start, tokens) ==
    IF str_tokens = <<>> THEN tokens
    ELSE LET token == Head(str_tokens)
             \* line[start:] of a negative start counts from the end of the line
             from == IF start >= 0 THEN start
                     ELSE IF Len(ln) + start > 0 THEN Len(ln) + start ELSE 0
             found == Find(SubSeq(ln, from + 1, Len(ln)), token)
         IN main_tokenize_loop(ln, Tail(str_tokens), found,
                Append(tokens, [text |-> token, start |-> found, end |-> found + Len(token)]))

main_tokenize(ln) ==
    LET sp == shlex_split(ln) IN
    IF sp.err THEN [err |-> TRUE, tokens |-> <<>>]
    ELSE [err |-> FALSE, tokens |-> main_tokenize_loop(ln, sp.tokens, 0, <<>>)]

\* The Token slot of an outcome that returned no token
NoToken == [text |-> "", start |-> 0, end |-> 0]

\* locate_full_token: [err, token]; err when one of its assertions fails
locate_full_token(tokens, begin, end) ==
    LET hits == {i \in 1..Len(tokens) : begin >= tokens[i].start /\ begin <= tokens[i].end} IN
    IF hits = {} THEN [err |-> TRUE, token |-> NoToken]
    ELSE LET i == CHOOSE j \in hits : \A k \in hits : j <= k IN
         IF end <= tokens[i].end THEN [err |-> FALSE, token |-> tokens[i]]
         ELSE [err |-> TRUE, token |-> NoToken]

\* format_completion_no_color
format_completion_no_color(f) == IF is_dir(f) THEN f.filename \o "/" ELSE f.filename

RECURSIVE Candidates(_, _)
Candidates(files, name) ==
    IF files = <<>> THEN <<>>
    ELSE (IF StartsWith(Head(files).filename, name)
          THEN <<format_completion_no_color(Head(files))>> ELSE <<>>)
         \o Candidates(Tail(files), name)

\* ConsoleInteractor.file_completions_for_text, for the line buffer and the
\* word bounds readline reports: [err, cache, ret, rpc]
file_completions_for_text(c, fs, q) ==
    LET text == SubSeq(q.line, q.begidx + 1, q.endidx)
        tk == tokenize(q.line)
        loc == IF tk.err THEN [err |-> TRUE]
               ELSE locate_full_token(tk.tokens, q.begidx, q.endidx)
    IN IF loc.err THEN [err |-> TRUE, cache |-> c, ret |-> <<>>, rpc |-> <<>>]
       ELSE LET path == PurePath(loc.token.text)
                parent == IF text = "" THEN path ELSE PathParent(path)
                name == IF text = "" THEN "" ELSE PathName(path)
                d == is_directory(c, fs, parent)
            IN IF ~d.ret THEN [err |-> FALSE, cache |-> d.cache, ret |-> <<>>, rpc |-> d.rpc]
               ELSE LET l == listdir(d.cache, fs, parent) IN
                    [err |-> FALSE, cache |-> l.cache,
                     ret |-> Candidates(l.ret, name), rpc |-> d.rpc \o l.rpc]

\* ConsoleInteractor.complete(text, state): <<candidate>>, or None
complete(c, fs, q, state) ==
    LET r == file_completions_for_text(c, fs, q)
        possible_completions == SortedNames(r.ret)
    IN [err |-> r.err, cache |-> r.cache, rpc |-> r.rpc,
        ret |-> IF state >= Len(possible_completions) THEN None
                ELSE <<possible_completions[state + 1]>>]

(***************************************************************************)
(* Remote trees the checks start from                                      *)
(***************************************************************************)

\* What can sit at a top-level name: nothing, a file, an empty directory, a
\* directory holding d as a file, as an empty directory, or as a directory
\* holding the file e.
Shapes == {"none", "file", "dir", "dir_f", "dir_d", "dir_de"}

Sub(name, shape) ==
    IF shape = "none" THEN <<>> :> "dir"
    ELSE IF shape = "file" THEN <<name>> :> "file"
    ELSE IF shape = "dir" THEN <<name>> :> "dir"
    ELSE IF shape = "dir_f" THEN (<<name>> :> "dir") @@ (<<name, "d">> :> "file")
    ELSE IF shape = "dir_d" THEN (<<name>> :> "dir") @@ (<<name, "d">> :> "dir")
    ELSE (<<name>> :> "dir") @@ (<<name, "d">> :> "dir") @@ (<<name, "d", "e">> :> "file")

MkTree(sa, sb, sc, dot) ==
    (<<>> :> "dir") @@ Sub("a", sa) @@ Sub("b.txt", sb) @@ Sub("c", sc)
    @@ (IF dot THEN <<".h">> :> "file" ELSE <<>> :> "dir")

Trees == {MkTree(sa, sb, sc, dot) : sa \in Shapes, sb \in {"none", "file", "dir_f"},
                                    sc \in Shapes, dot \in BOOLEAN}

\* The local files: l1, l2 and the directory out
LocalTree == (<<>> :> "dir") @@ (<<"l1">> :> "file") @@ (<<"l2">> :> "file")
             @@ (<<"out">> :> "dir")

\* No transfer is run on its own
TransferIdle ==
    /\ x_pc = "idle"
    /\ x_op = "get"
    /\ x_size = 0
    /\ x_sent = 0
    /\ update_called = FALSE
    /\ progress = <<>>

\* human_readable_size has not been called on its own
SizeIdle ==
    /\ h_done = FALSE
    /\ h_size = 0
    /\ h_out = ""

\* tokenize and locate_full_token have not been called on their own
TokIdle ==
    /\ t_pc = "start"
    /\ t_line = ""
    /\ t_tokens = [module |-> "none", err |-> FALSE, tokens |-> <<>>]
    /\ t_off = <<0, 0>>
    /\ t_ret = [err |-> FALSE, token |-> NoToken]

\* The REPL before its first turn
ReplIdle ==
    /\ lfs = LocalTree
    /\ tmp = 0
    /\ pc = "loop_top"
    /\ user_input = ""
    /\ out = <<>>
    /\ rpc = <<>>
    /\ exc = "none"
    /\ turn = 0
    /\ n_complete = 0

\* The tree of the specification's examples: {a, b.txt, c/} with c holding d
ExampleTree == MkTree("file", "file", "dir_f", FALSE)

Dirs(tree) == {p \in DOMAIN tree : tree[p] = "dir"}

(***************************************************************************)
(* The resolver on its own: patterns expanded over a remote tree           *)
(***************************************************************************)
PatternStrings ==
    {"*", "*.txt", "c/*", "a", "?", "*/*", "*/d", "*/*/*", "c/d/..", "a/..",
     "..", ".", "/a", "/c/d", "/*", "/", "../c", "c/../a", "nope", ".*"}

MaxPatterns == 2

PatternLists ==
    {<<>>} \cup {<<p>> : p \in PatternStrings}
    \cup (IF MaxPatterns >= 2
          THEN {<<p, q>> : p \in PatternStrings, q \in {"*", "a"}} ELSE {})

Fs == [tree |-> remote, cwd |-> rcwd]

GlobInit ==
    /\ remote \in Trees
    /\ rcwd \in {<<>>, <<"c">>} \cap Dirs(remote)
    /\ ReplIdle
    /\ cache = DirectoryCache
    /\ c_rpc = NoCalls
    /\ c_op = [op |-> "none"]
    /\ c_ret = FALSE
    /\ c_n = NoCalls
    /\ g_done = FALSE
    /\ g_in \in PatternLists
    /\ g_out = [err |-> FALSE, m |-> <<>>, rpc |-> <<>>]
    /\ TokIdle
    /\ SizeIdle
    /\ TransferIdle

\* expand_path_globs(paths, sftp_client) applied to the patterns drawn
Expand ==
    /\ ~g_done
    /\ g_done' = TRUE
    /\ g_out' = expand_path_globs(MapPurePath(g_in), Fs)
    /\ UNCHANGED <<remote, rcwd, g_in, cvars, rvars, tvars, hvars, xvars>>

GlobNext == Expand

GlobSpec == GlobInit /\ [][GlobNext]_vars

(***************************************************************************)
(* _repl_main: the REPL loop                                               *)
(***************************************************************************)
Lines ==
    {"ls", "ls *", "ls -l c", "ll", "ll c", "l", "ls /a", "ls */d", "ls --help", "ls \"abc",
     "cd c", "cd ..", "cd nope", "cd",
     "get a", "get ? l1", "get * nope", "get * out", "get nope", "get c/.. x",
     "get nope/x", "get /nope", "get a/x",
     "put l1", "put l1 nope/x", "put l* c", "put l* z",
     "rm a", "rm *", "rm a a c", "rm c a", "rmdir c", "mkdir e", "mkdir c",
     "cp a z", "cp * z", "cp c z", "cp a nope/x", "mv a z", "mv a b.txt c", "mv * nope", "mv * b.txt", "mv c a c",
     "ls nope", "rm nope", "rmdir nope", "cp nope z", "mv nope z",
     "ls -x", "cd c d", "get", "put", "rm", "rmdir", "mkdir", "cp a", "mv a",
     "cd --help c", "get --help a", "put --help l1", "rm --help a",
     "rmdir --help c", "mkdir --help e", "cp --help a z", "mv --help a z",
     "pwd", "pwd x", "exit", "exit x", "quit x", "help", "foo", "", "  "}

\* What readline reports to the completer: the line buffer and the bounds of
\* the word under the cursor
CompletionQueries ==
    {[line |-> "ls c/", begidx |-> 5, endidx |-> 5],
     [line |-> "ls b", begidx |-> 3, endidx |-> 4],
     [line |-> "ls nope/x", begidx |-> 8, endidx |-> 9],
     [line |-> "ls ", begidx |-> 3, endidx |-> 3],
     [line |-> "ls ./", begidx |-> 5, endidx |-> 5],
     [line |-> "cd c", begidx |-> 3, endidx |-> 4]}

\* The lines read in one run, and the completer calls in one turn
MaxTurns == 2
MaxCompletions == 1

\* The highest match index readline asks for
MaxState == 1

ReplTrees == {ExampleTree, MkTree("file", "none", "dir_d", TRUE)}

\* A tree whose directory comes first in a listing: a/ holding d, then the
\* files b.txt and c
DirFirstTree == MkTree("dir_f", "file", "file", FALSE)

Init ==
    /\ remote \in ReplTrees
    /\ rcwd = <<>>
    /\ ReplIdle
    /\ cache = DirectoryCache
    /\ c_rpc = NoCalls
    /\ c_op = [op |-> "none"]
    /\ c_ret = FALSE
    /\ c_n = NoCalls
    /\ g_done = FALSE
    /\ g_in = <<>>
    /\ g_out = [err |-> FALSE, m |-> <<>>, rpc |-> <<>>]
    /\ TokIdle
    /\ SizeIdle
    /\ TransferIdle

\* while True: console_interactor.clear_cache()
ClearCache ==
    /\ pc = "loop_top"
    /\ turn < MaxTurns
    /\ cache' = clear_cache(cache)
    /\ c_rpc' = NoCalls
    /\ c_n' = NoCalls
    /\ c_op' = [op |-> "none"]
    /\ c_ret' = FALSE
    /\ pc' = "prompt"
    /\ n_complete' = 0
    /\ UNCHANGED <<remote, rcwd, lfs, tmp, user_input, out, rpc, exc, turn, gvars, tvars, hvars, xvars>>

\* get_input: the prompt is rendered from ps1, which reads the cache's cwd
Prompt ==
    /\ pc = "prompt"
    /\ LET r == cache_cwd(cache, Fs) IN
        /\ cache' = r.cache
        /\ c_rpc' = TallyAll(c_rpc, r.rpc)
    /\ pc' = "input"
    /\ UNCHANGED <<remote, rcwd, lfs, tmp, user_input, out, rpc, exc, turn, n_complete,
                   c_op, c_ret, c_n, gvars, tvars, hvars, xvars>>

\* readline calls the completer while the line is edited; an exception raised
\* in the completer is dropped by readline
Complete(q, state) ==
    /\ pc = "input"
    /\ n_complete < MaxCompletions
    /\ n_complete' = n_complete + 1
    /\ LET r == complete(cache, Fs, q, state) IN
        /\ cache' = r.cache
        /\ c_rpc' = TallyAll(c_rpc, r.rpc)
        /\ c_ret' = r.ret
        /\ c_op' = [op |-> "complete", q |-> q, state |-> state, raised |-> r.err]
    /\ UNCHANGED <<remote, rcwd, lfs, tmp, pc, user_input, out, rpc, exc, turn, c_n, gvars, tvars, hvars, xvars>>

\* An interrupt that ends the session as end-of-input does
Interrupt_exits ==
    /\ pc = "input"
    /\ pc' = "exited"
    /\ exc' = "Exit"
    /\ turn' = turn + 1
    /\ UNCHANGED <<remote, rcwd, lfs, tmp, user_input, out, rpc, n_complete, cvars, gvars, tvars, hvars, xvars>>

\* except KeyboardInterrupt: print("\n"); continue
Interrupt ==
    /\ pc = "input"
    /\ pc' = "loop_top"
    /\ turn' = turn + 1
    /\ UNCHANGED <<remote, rcwd, lfs, tmp, user_input, out, rpc, exc, n_complete, cvars, gvars, tvars, hvars, xvars>>

\* except EOFError: raise typer.Exit(), whose exit code is 0
EndOfInput ==
    /\ pc = "input"
    /\ pc' = "exited"
    /\ exc' = "Exit"
    /\ turn' = turn + 1
    /\ UNCHANGED <<remote, rcwd, lfs, tmp, user_input, out, rpc, n_complete, cvars, gvars, tvars, hvars, xvars>>

World == [tree |-> remote, cwd |-> rcwd, local |-> lfs, tmp |-> tmp,
          out |-> <<>>, rpc |-> <<>>, exc |-> "none"]

\* if tokens[0] in ALIAS: tokens = ALIAS[tokens[0]] + tokens[1:]
ExpandAlias(tokens) ==
    IF Head(tokens) \in DOMAIN ALIAS THEN ALIAS[Head(tokens)] \o Tail(tokens) ELSE tokens

\* case ["pwd"]: console.print(console_interactor.cwd), r the cache's answer
Pwd(stay, r) ==
    [stay EXCEPT !.w = Say(@, "cwd", StrOf([root |-> TRUE, segs |-> r.ret])),
                 !.cache = r.cache, !.crpc = r.rpc]

\* try: COMMANDS[command](...) except ParserError: pass, w the world the
\* handler left
AfterCommand(stay, w) ==
    IF w.exc = "IOError"
    THEN [stay EXCEPT !.w = w, !.pc = "crashed", !.exc = "IOError"]
    ELSE [stay EXCEPT !.w = [w EXCEPT !.exc = "none"]]

\* The loop body after the line is read: [w, cache, crpc, pc, exc]
Dispatch(ln) ==
    LET sp == shlex_split(Strip(ln))
        stay == [w |-> World, cache |-> cache, crpc |-> <<>>, pc |-> "loop_top", exc |-> "none"]
    IN
    IF sp.err THEN [stay EXCEPT !.pc = "crashed", !.exc = "ValueError"]
    ELSE IF sp.tokens = <<>> THEN stay
    ELSE LET tokens == ExpandAlias(sp.tokens)
             command == Head(tokens)
         IN
         IF tokens = <<"exit">> \/ tokens = <<"quit">>
         THEN [stay EXCEPT !.pc = "exited", !.exc = "Exit"]
         ELSE IF tokens = <<"pwd">>
         THEN Pwd(stay, cache_cwd(cache, Fs))
         ELSE IF command \in COMMANDS
         THEN AfterCommand(stay, RunCommand(command, World, Tail(tokens)))
         ELSE IF command \in {"exit", "quit", "help", "pwd"}
         THEN [stay EXCEPT !.w = Say(World, "red", command \o ": too many args")]
         ELSE [stay EXCEPT !.w = Say(World, "plain", "Unrecognized command: " \o ln)]

\* A line is read and the rest of the loop body runs
Submit(ln) ==
    /\ pc = "input"
    /\ \E d \in {Dispatch(ln)} :
        /\ remote' = d.w.tree
        /\ rcwd' = d.w.cwd
        /\ lfs' = d.w.local
        /\ tmp' = d.w.tmp
        /\ out' = d.w.out
        /\ rpc' = d.w.rpc
        /\ cache' = d.cache
        /\ c_rpc' = TallyAll(c_rpc, d.crpc)
        /\ pc' = d.pc
        /\ exc' = d.exc
    /\ user_input' = ln
    /\ turn' = turn + 1
    /\ UNCHANGED <<n_complete, c_op, c_ret, c_n, gvars, tvars, hvars, xvars>>

Next ==
    \/ ClearCache
    \/ Prompt
    \/ \E q \in CompletionQueries, state \in 0..MaxState : Complete(q, state)
    \/ Interrupt
    \/ EndOfInput
    \/ \E ln \in Lines : Submit(ln)

Spec == Init /\ [][Next]_vars

\* The same loop on the tree whose directory is listed first
DirFirstInit ==
    /\ remote = DirFirstTree
    /\ rcwd = <<>>
    /\ ReplIdle
    /\ cache = DirectoryCache
    /\ c_rpc = NoCalls
    /\ c_op = [op |-> "none"]
    /\ c_ret = FALSE
    /\ c_n = NoCalls
    /\ g_done = FALSE
    /\ g_in = <<>>
    /\ g_out = [err |-> FALSE, m |-> <<>>, rpc |-> <<>>]
    /\ TokIdle
    /\ SizeIdle
    /\ TransferIdle

DirFirstSpec == DirFirstInit /\ [][Next]_vars

(***************************************************************************)
(* Properties of the REPL loop                                             *)
(***************************************************************************)

\* C1: no I/O error raised by a remote or transfer call of a handler ends the
\* REPL: the handler catches it, prints it, and the loop goes on to the next
\* prompt.
C1_IOErrorReturnsToPrompt == ~(pc = "crashed" /\ exc = "IOError")

\* C2: a line with an unterminated quote does not end the session: the loop
\* reports it and prompts again.
C2_UnterminatedQuoteReprompts ==
    (turn > 0 /\ shlex_split(Strip(user_input)).err) => pc \notin {"crashed", "exited"}

\* What the cache holds is what the remote holds now
Fresh(c) ==
    /\ \A p \in DOMAIN c.files_by_directory :
          LET l == SftpListdirAttr(Fs, p) IN
          c.files_by_directory[p] = IF l.err THEN <<>> ELSE l.files
    /\ \A p \in DOMAIN c.files_by_fullname :
          LET st == SftpStat(Fs, p) IN ~st.err /\ c.files_by_fullname[p] = st.attr
    /\ c.cwd # None => c.cwd[1] = rcwd

\* C3: every turn starts with an empty DirectoryCache, whatever ended the turn
\* before, and while a line is being read the cache holds no listing, stat or
\* working directory of an earlier turn: all it holds was fetched this turn.
C3_EveryTurnStartsWithAnEmptyCache ==
    /\ pc = "prompt" => cache = DirectoryCache
    /\ pc \in {"prompt", "input"} => Fresh(cache)

\* The turn after `cd c` starts with an empty cache, although the turn before
\* memoized the old working directory for its prompt
C3_Witness ==
    /\ pc = "prompt"
    /\ turn = 1
    /\ user_input = "cd c"
    /\ rcwd = <<"c">>
    /\ cache = DirectoryCache

\* The line is `get SRC DST`, SRC expands to more than one match and DST is
\* not a local directory
MultiMatchIntoNonDirectory(ln) ==
    LET sp == shlex_split(Strip(ln)) IN
    /\ ~sp.err
    /\ Len(sp.tokens) = 3
    /\ sp.tokens[1] = "get"
    /\ ~IsOption(sp.tokens[2]) /\ ~IsOption(sp.tokens[3])
    /\ LET g == expand_path_globs(<<PurePath(sp.tokens[2])>>, Fs) IN
          ~g.err /\ Len(g.m) > 1
    /\ ~LocalIsDir(lfs, PurePath(sp.tokens[3]))

NotADirectory(dst) == [kind |-> "red", text |-> dst \o ": Not a directory", names |-> <<>>]

\* C10: a get whose source expands to more than one match and whose
\* destination is not an existing local directory prints "not a directory",
\* issues no remote get and leaves the local tree as it was.
C10_MultiMatchGetTransfersNothing ==
    [][\A ln \in Lines :
          (MultiMatchIntoNonDirectory(ln) /\ Submit(ln)) =>
              /\ \E i \in 1..Len(out') :
                    out'[i] = NotADirectory(shlex_split(Strip(ln)).tokens[3])
              /\ \A i \in 1..Len(rpc') : rpc'[i].op # "get"
              /\ lfs' = lfs
              /\ pc' = "loop_top"]_vars

\* `get * nope` over three matches, nope missing locally, has been refused
C10_Witness ==
    /\ user_input = "get * nope"
    /\ pc = "loop_top"
    /\ turn = 1
    /\ out = <<NotADirectory("nope")>>
    /\ rpc = <<Call("listdir", PurePath("."))>>
    /\ lfs = LocalTree

(***************************************************************************)
(* The DirectoryCache on its own: its methods called in any order within   *)
(* turns, over a remote tree                                               *)
(***************************************************************************)
CachePaths == {PurePath(s) : s \in {"c", "c/d", "nope"}}

\* At most this many calls of one method on one path in a turn
MaxCalls == 2

CacheTrees == {MkTree("file", "file", sc, FALSE) : sc \in {"none", "file", "dir", "dir_f", "dir_d"}}

CacheInit ==
    /\ remote \in CacheTrees
    /\ rcwd = <<>>
    /\ ReplIdle
    /\ cache = DirectoryCache
    /\ c_rpc = NoCalls
    /\ c_op = [op |-> "none"]
    /\ c_ret = FALSE
    /\ c_n = NoCalls
    /\ g_done = FALSE
    /\ g_in = <<>>
    /\ g_out = [err |-> FALSE, m |-> <<>>, rpc |-> <<>>]
    /\ TokIdle
    /\ SizeIdle
    /\ TransferIdle

CallListdir(path) ==
    /\ Count(c_n, path) < MaxCalls
    /\ LET r == listdir(cache, Fs, path) IN
        /\ cache' = r.cache
        /\ c_ret' = r.ret
        /\ c_rpc' = TallyAll(c_rpc, r.rpc)
    /\ c_op' = [op |-> "listdir", path |-> path]
    /\ c_n' = Tally(c_n, path)
    /\ UNCHANGED <<remote, rcwd, gvars, rvars, tvars, hvars, xvars>>

CallIsDirectory(path) ==
    /\ Count(c_rpc, Call("stat", path)) < MaxCalls
    /\ LET r == is_directory(cache, Fs, path) IN
        /\ cache' = r.cache
        /\ c_ret' = r.ret
        /\ c_rpc' = TallyAll(c_rpc, r.rpc)
    /\ c_op' = [op |-> "is_directory", path |-> path]
    /\ UNCHANGED <<remote, rcwd, c_n, gvars, rvars, tvars, hvars, xvars>>

\* A new turn begins
NextTurn ==
    /\ c_op.op # "none"
    /\ cache' = clear_cache(cache)
    /\ c_rpc' = NoCalls
    /\ c_n' = NoCalls
    /\ c_op' = [op |-> "none"]
    /\ c_ret' = FALSE
    /\ UNCHANGED <<remote, rcwd, gvars, rvars, tvars, hvars, xvars>>

CacheNext ==
    \/ \E path \in CachePaths : CallListdir(path)
    \/ \E path \in CachePaths : CallIsDirectory(path)
    \/ NextTurn

CacheSpec == CacheInit /\ [][CacheNext]_vars

(***************************************************************************)
(* Properties of the DirectoryCache (checked under CacheSpec)              *)
(***************************************************************************)

\* C4: within a turn, however often listdir(p) is called, exactly one remote
\* listdir call is issued for p, whether it succeeds or fails; after a failed
\* remote listing listdir(p) returns the empty sequence.
C4_OneRemoteListdirPerPathPerTurn ==
    /\ \A path \in CachePaths :
          /\ Count(c_rpc, Call("listdir", path)) = (IF Count(c_n, path) > 0 THEN 1 ELSE 0)
          /\ Count(c_n, path) > 0 =>
                /\ path \in DOMAIN cache.files_by_directory
                /\ SftpListdirAttr(Fs, path).err => cache.files_by_directory[path] = <<>>
    /\ c_op.op = "listdir" =>
          /\ c_op.path \in DOMAIN cache.files_by_directory
          /\ c_ret = cache.files_by_directory[c_op.path]
          /\ SftpListdirAttr(Fs, c_op.path).err => c_ret = <<>>
          /\ ~SftpListdirAttr(Fs, c_op.path).err => c_ret = SftpListdirAttr(Fs, c_op.path).files

\* C4 witness: listdir was called twice on a path whose remote listing fails
C4_Witness ==
    \E path \in CachePaths :
        /\ c_op = [op |-> "listdir", path |-> path]
        /\ Count(c_n, path) = 2
        /\ SftpListdirAttr(Fs, path).err
        /\ Count(c_rpc, Call("listdir", path)) = 1

\* C5 (as claimed): whatever listdir and is_directory calls came before in the
\* turn, is_directory(p) returns false for a path p that does not exist on
\* the remote.
C5_IsDirectoryFalseForMissingPath ==
    (c_op.op = "is_directory" /\ Resolve(Fs, c_op.path) = NoPath) => c_ret = FALSE

\* The cache knows the kind of the path from a listing: the path has a cached
\* listing, or its final segment appears in the cached listing of its parent
KnownFromListing(c, path) ==
    \/ path \in DOMAIN c.files_by_directory
    \/ /\ PathParent(path) \in DOMAIN c.files_by_directory
       /\ Named(c.files_by_directory[PathParent(path)], PathName(path)) # {}

\* Within a turn at most one remote stat call is issued for a path
AtMostOneStat(calls) == \A path \in CachePaths : Count(calls, Call("stat", path)) <= 1

\* C25 (as claimed): within a turn, however often is_directory(p) is called, at
\* most one remote stat call is issued for p, whether the stat succeeds or
\* fails; and is_directory(p) issues no stat call when p has a cached listing
\* or the final segment of p appears in the cached listing of its parent
C25_OneStatPerPathPerTurn ==
    [][/\ AtMostOneStat(c_rpc')
       /\ \A path \in CachePaths :
             KnownFromListing(cache, path) =>
                 Count(c_rpc', Call("stat", path)) <= Count(c_rpc, Call("stat", path))]_vars

\* What holds of the code: one stat at most for a path whose stat succeeds
C25_OneStatWhereStatSucceeds ==
    \A path \in CachePaths :
        ~SftpStat(Fs, path).err => Count(c_rpc, Call("stat", path)) <= 1

\* What holds of the code: no stat for a path known from a listing
C25_NoStatWhenKnownFromListing ==
    [][\A path \in CachePaths :
          KnownFromListing(cache, path) =>
              Count(c_rpc', Call("stat", path)) <= Count(c_rpc, Call("stat", path))]_vars

\* is_directory was called for a path known from its parent's listing
C25_KnownFromParentReached ==
    /\ c_op.op = "is_directory"
    /\ c_op.path \notin DOMAIN cache.files_by_directory
    /\ KnownFromListing(cache, c_op.path)

(***************************************************************************)
(* Properties of the resolver (checked under GlobSpec)                     *)
(***************************************************************************)

HasWildcard(s) == \E i \in 1..Len(s) : SubSeq(s, i, i) \in {"*", "?", "["}

\* The absolute paths n levels below dir whose successive names match segs
Below(tree, dir, segs) ==
    {q \in DOMAIN tree :
        /\ Len(q) = Len(dir) + Len(segs)
        /\ SubSeq(q, 1, Len(dir)) = dir
        /\ \A i \in 1..Len(segs) : fnmatch(q[Len(dir) + i], segs[i])}

\* The entries matched by a proper prefix of the pattern's segments
Intermediate(tree, dir, segs) ==
    UNION {Below(tree, dir, SubSeq(segs, 1, k)) : k \in 1..(Len(segs) - 1)}

MatchPaths(o) == {Resolve(Fs, o.m[i].path) : i \in 1..Len(o.m)}

\* One relative pattern of n >= 1 segments, none of them ".."
OneRelativePattern ==
    /\ g_done /\ Len(g_in) = 1
    /\ ~PurePath(g_in[1]).root
    /\ PurePath(g_in[1]).segs # <<>>
    /\ \A i \in 1..Len(PurePath(g_in[1]).segs) : PurePath(g_in[1]).segs[i] # ".."

ExactlyBelow(segs) ==
    /\ ~g_out.err
    /\ MatchPaths(g_out) = Below(remote, rcwd, segs)
    /\ Len(g_out.m) = Cardinality(Below(remote, rcwd, segs))
    /\ \A i \in 1..Len(g_out.m) :
          /\ g_out.m[i].path = [root |-> FALSE,
                                 segs |-> SubSeq(Resolve(Fs, g_out.m[i].path),
                                                 Len(rcwd) + 1,
                                                 Len(rcwd) + Len(segs))]
          /\ g_out.m[i].attr.kind = remote[Resolve(Fs, g_out.m[i].path)]
          /\ g_out.m[i].attr.filename = PathName(g_out.m[i].path)

\* C6 (as claimed): a rooted pattern without wildcards that names an existing
\* remote entry expands to exactly one match, that entry, resolved from the
\* remote root and not from the working directory.
C6_RootedPatternResolvesFromRoot ==
    (/\ g_done /\ Len(g_in) = 1
     /\ PurePath(g_in[1]).root
     /\ PurePath(g_in[1]).segs # <<>>
     /\ ~HasWildcard(g_in[1])
     /\ PurePath(g_in[1]).segs \in DOMAIN remote)
    => /\ ~g_out.err
       /\ Len(g_out.m) = 1
       /\ Resolve(Fs, g_out.m[1].path) = PurePath(g_in[1]).segs

\* C7: for one relative pattern of n >= 1 segments without "..", over a tree in
\* which every matched intermediate entry is a directory, the expansion is
\* exactly the entries n levels below the working directory whose successive
\* names match the pattern's segments (a leading dot is matched by "*" like any
\* character); the empty pattern list expands to nothing; over {a, b.txt, c/}
\* with c holding d, "*" gives 3 matches, "*.txt" only b.txt and "c/*" c/d.
C7_ExpandIsExactlyTheMatchingEntries ==
    /\ (OneRelativePattern
         /\ \A q \in Intermediate(remote, rcwd, PurePath(g_in[1]).segs) :
               remote[q] = "dir")
        => ExactlyBelow(PurePath(g_in[1]).segs)
    /\ (g_done /\ g_in = <<>>) => (~g_out.err /\ g_out.m = <<>>)
    /\ (g_done /\ remote = ExampleTree /\ rcwd = <<>>) =>
          /\ g_in = <<"*">> => Len(g_out.m) = 3
          /\ g_in = <<"*.txt">> => MatchPaths(g_out) = {<<"b.txt">>}
          /\ g_in = <<"c/*">> => MatchPaths(g_out) = {<<"c", "d">>}

\* C7 witness: a two-segment wildcard pattern has matched entries below
\* several directories.
C7_Witness ==
    /\ OneRelativePattern
    /\ g_in = <<"*/*">>
    /\ \A q \in Intermediate(remote, rcwd, PurePath(g_in[1]).segs) : remote[q] = "dir"
    /\ Len(g_out.m) >= 2

\* C8 (as claimed): a file met in the middle of a pattern contributes no match
\* and raises nothing; the matches of the other branches are still returned.
C8_FileMidPatternYieldsNoMatch ==
    (/\ OneRelativePattern
     /\ \E q \in Intermediate(remote, rcwd, PurePath(g_in[1]).segs) :
           remote[q] = "file")
    => /\ ~g_out.err
       /\ MatchPaths(g_out) = Below(remote, rcwd, PurePath(g_in[1]).segs)

\* The walk of some pattern ended in a stat of the accumulated path that failed
SomeFinalStatFailed ==
    \E i \in 1..Len(g_out.rpc) :
        g_out.rpc[i].op = "stat" /\ SftpStat(Fs, g_out.rpc[i].path).err

\* C9 (as claimed): when a pattern has no segments left and the stat of the
\* accumulated path fails, the pattern contributes nothing silently: no error
\* leaves the expansion.
C9_FailedFinalStatIsSilent ==
    (g_done /\ SomeFinalStatFailed) => ~g_out.err

(***************************************************************************)
(* tokenize and locate_full_token on their own                             *)
(***************************************************************************)
\* The longest line drawn
MaxLineLen == 5

\* The characters of the lines drawn: two letters, the blank, the double quote
TokChars == {"a", "b", " ", "\""}

RECURSIVE LinesOfLen(_)
LinesOfLen(n) ==
    IF n = 0 THEN {""}
    ELSE {l \o ch : l \in LinesOfLen(n - 1), ch \in TokChars}

TokLines == UNION {LinesOfLen(n) : n \in 0..MaxLineLen}

\* The two modules that define tokenize
TokModules == {"sftp_repl.completions", "main"}

TokInit ==
    /\ remote = ExampleTree
    /\ rcwd = <<>>
    /\ ReplIdle
    /\ cache = DirectoryCache
    /\ c_rpc = NoCalls
    /\ c_op = [op |-> "none"]
    /\ c_ret = FALSE
    /\ c_n = NoCalls
    /\ g_done = FALSE
    /\ g_in = <<>>
    /\ g_out = [err |-> FALSE, m |-> <<>>, rpc |-> <<>>]
    /\ t_pc = "start"
    /\ t_line \in TokLines
    /\ t_tokens = [module |-> "none", err |-> FALSE, tokens |-> <<>>]
    /\ t_off = <<0, 0>>
    /\ t_ret = [err |-> FALSE, token |-> NoToken]
    /\ SizeIdle
    /\ TransferIdle

\* tokens = tokenize(line), of either module
Tokenize(module) ==
    /\ t_pc = "start"
    /\ t_pc' = "tokenized"
    /\ \E r \in {IF module = "main" THEN main_tokenize(t_line) ELSE tokenize(t_line)} :
           t_tokens' = [module |-> module, err |-> r.err, tokens |-> r.tokens]
    /\ UNCHANGED <<remote, rcwd, rvars, cvars, gvars, t_line, t_off, t_ret, hvars, xvars>>

\* token = locate_full_token(tokens, begin, end); a ValueError of tokenize
\* leaves file_completions_for_text before this call
Locate(begin, end) ==
    /\ t_pc = "tokenized"
    /\ ~t_tokens.err
    /\ t_pc' = "located"
    /\ t_off' = <<begin, end>>
    /\ t_ret' = locate_full_token(t_tokens.tokens, begin, end)
    /\ UNCHANGED <<remote, rcwd, rvars, cvars, gvars, t_line, t_tokens, hvars, xvars>>

TokNext ==
    \/ \E module \in TokModules : Tokenize(module)
    \/ \E begin \in 0..Len(t_line) : \E end \in begin..Len(t_line) : Locate(begin, end)

TokSpec == TokInit /\ [][TokNext]_vars

(***************************************************************************)
(* human_readable_size on its own                                          *)
(***************************************************************************)
\* Every size up to this many bytes is drawn
MaxBytes == 1100

\* Sizes around this many whole units (K, M) are drawn
MaxUnits == 12

\* Around m units: one byte less, exactly, one byte more, and a half unit more
Sizes ==
    0..MaxBytes
    \cup {m * unit + d : m \in 1..MaxUnits, unit \in {1024, 1024 ^ 2}, d \in {-1, 0, 1}}
    \cup {m * unit + unit \div 2 : m \in 1..MaxUnits, unit \in {1024, 1024 ^ 2}}

SizeInit ==
    /\ remote = ExampleTree
    /\ rcwd = <<>>
    /\ ReplIdle
    /\ cache = DirectoryCache
    /\ c_rpc = NoCalls
    /\ c_op = [op |-> "none"]
    /\ c_ret = FALSE
    /\ c_n = NoCalls
    /\ g_done = FALSE
    /\ g_in = <<>>
    /\ g_out = [err |-> FALSE, m |-> <<>>, rpc |-> <<>>]
    /\ TokIdle
    /\ h_done = FALSE
    /\ h_size \in Sizes
    /\ h_out = ""
    /\ TransferIdle

\* human_readable_size(size) is called
FormatSize ==
    /\ ~h_done
    /\ h_done' = TRUE
    /\ h_out' = human_readable_size(h_size)
    /\ UNCHANGED <<remote, rcwd, rvars, cvars, gvars, tvars, h_size, xvars>>

SizeNext == FormatSize

SizeSpec == SizeInit /\ [][SizeNext]_vars

(***************************************************************************)
(* One transfer of get or put: the body of `with Progress() as progress`   *)
(***************************************************************************)
\* The longest file transferred, in bytes
MaxFileSize == 5

TransferInit ==
    /\ remote = ExampleTree
    /\ rcwd = <<>>
    /\ ReplIdle
    /\ cache = DirectoryCache
    /\ c_rpc = NoCalls
    /\ c_op = [op |-> "none"]
    /\ c_ret = FALSE
    /\ c_n = NoCalls
    /\ g_done = FALSE
    /\ g_in = <<>>
    /\ g_out = [err |-> FALSE, m |-> <<>>, rpc |-> <<>>]
    /\ TokIdle
    /\ SizeIdle
    /\ x_pc = "start"
    /\ x_op \in {"get", "put"}
    /\ x_size \in 0..MaxFileSize
    /\ x_sent = 0
    /\ update_called = FALSE
    /\ progress = <<>>

\* An _update that hands a total of 0 on as it is
_update_passes_zero(reports, current, total) == Append(reports, <<current, total>>)

\* _update(current, total), after update_called = True: the report that
\* progress.update receives
_update(reports, current, total) ==
    IF total = 0 THEN Append(reports, <<1, 1>>) ELSE Append(reports, <<current, total>>)

\* task = progress.add_task(...); update_called = False; sftp_client.get or
\* sftp_client.put is entered
StartTransfer ==
    /\ x_pc = "start"
    /\ x_pc' = "transferring"
    /\ update_called' = FALSE
    /\ UNCHANGED <<remote, rcwd, rvars, cvars, gvars, tvars, hvars, x_op, x_size, x_sent, progress>>

\* The transfer copies a chunk of n bytes and calls callback(size, file_size)
Callback(n) ==
    /\ x_pc = "transferring"
    /\ x_sent + n <= x_size
    /\ x_sent' = x_sent + n
    /\ update_called' = TRUE
    /\ progress' = _update(progress, x_sent + n, x_size)
    /\ UNCHANGED <<remote, rcwd, rvars, cvars, gvars, tvars, hvars, x_pc, x_op, x_size>>

\* For an empty file the transfer may call callback(0, 0) once
CallbackOfEmptyFile ==
    /\ x_pc = "transferring"
    /\ x_size = 0
    /\ ~update_called
    /\ update_called' = TRUE
    /\ progress' = _update(progress, 0, 0)
    /\ UNCHANGED <<remote, rcwd, rvars, cvars, gvars, tvars, hvars, x_pc, x_op, x_size, x_sent>>

\* sftp_client.get or sftp_client.put returns: every byte was copied
TransferReturns ==
    /\ x_pc = "transferring"
    /\ x_sent = x_size
    /\ x_pc' = "returned"
    /\ UNCHANGED <<remote, rcwd, rvars, cvars, gvars, tvars, hvars, x_op, x_size, x_sent,
                   update_called, progress>>

\* sftp_client.get or sftp_client.put raises IOError: the with block is left
TransferFails ==
    /\ x_pc = "transferring"
    /\ x_pc' = "failed"
    /\ UNCHANGED <<remote, rcwd, rvars, cvars, gvars, tvars, hvars, x_op, x_size, x_sent,
                   update_called, progress>>

\* if not update_called: progress.update(task, completed=1, total=1)
AfterTransfer ==
    /\ x_pc = "returned"
    /\ x_pc' = "done"
    /\ progress' = IF ~update_called THEN Append(progress, <<1, 1>>) ELSE progress
    /\ UNCHANGED <<remote, rcwd, rvars, cvars, gvars, tvars, hvars, x_op, x_size, x_sent,
                   update_called>>

TransferNext ==
    \/ StartTransfer
    \/ \E n \in 1..MaxFileSize : Callback(n)
    \/ CallbackOfEmptyFile
    \/ TransferReturns
    \/ TransferFails
    \/ AfterTransfer

TransferSpec == TransferInit /\ [][TransferNext]_vars

(***************************************************************************)
(* Properties of the commands (checked under Spec)                         *)
(***************************************************************************)

\* The tokens _repl_main dispatches for the line, aliases expanded
TokensOf(ln) ==
    LET sp == shlex_split(Strip(ln)) IN
    IF sp.err \/ sp.tokens = <<>> THEN <<>> ELSE ExpandAlias(sp.tokens)

Red(text) == [kind |-> "red", text |-> text, names |-> <<>>]

NoCallOf(calls, ops) == \A i \in 1..Len(calls) : calls[i].op \notin ops

\* The line is `get SRC [DST]` with SRC a literal path that names nothing on
\* the remote
GetOfMissingSource(ln) ==
    LET t == TokensOf(ln) IN
    /\ Len(t) \in {2, 3}
    /\ t[1] = "get"
    /\ \A i \in 2..Len(t) : ~IsOption(t[i])
    /\ ~HasWildcard(t[2])
    /\ Resolve(Fs, PurePath(t[2])) = NoPath

\* C11 (as claimed): a get of one source that is not on the remote prints
\* "File <src> not found", issues no remote get and writes nothing locally,
\* whatever the shape of the missing path.
C11_GetOfMissingSourceSaysNotFound ==
    [][\A ln \in Lines :
          (GetOfMissingSource(ln) /\ Submit(ln)) =>
              /\ out' = <<Red(("File " \o StrOf(PurePath(TokensOf(ln)[2]))) \o " not found")>>
              /\ NoCallOf(rpc', {"get"})
              /\ lfs' = lfs
              /\ pc' = "loop_top"]_vars

\* The source patterns of a well-formed line of a glob-expanding command, <<>>
\* for any other line
SourcesOf(t) ==
    LET pos == IF t = <<>> THEN <<>> ELSE Select(Tail(t), FALSE)
        opts == IF t = <<>> THEN {} ELSE {Select(Tail(t), TRUE)[i] : i \in 1..Len(Select(Tail(t), TRUE))}
    IN IF t = <<>> THEN <<>>
       ELSE IF t[1] = "ls" /\ opts \subseteq {"-l", "-h"}
       THEN (IF pos = <<>> THEN <<".">> ELSE pos)
       ELSE IF opts # {} THEN <<>>
       ELSE IF t[1] \in {"rm", "rmdir"} THEN pos
       ELSE IF t[1] = "get" /\ Len(pos) \in {1, 2} THEN <<pos[1]>>
       ELSE IF t[1] = "cp" /\ Len(pos) = 2 THEN <<pos[1]>>
       ELSE IF t[1] = "mv" /\ Len(pos) >= 2 THEN SubSeq(pos, 1, Len(pos) - 1)
       ELSE <<>>

\* What the source patterns of the line expand to on the remote as it is
ExpansionOf(ln) == expand_path_globs(MapPurePath(SourcesOf(TokensOf(ln))), Fs)

ExpandsToNothing(ln) ==
    /\ SourcesOf(TokensOf(ln)) # <<>>
    /\ ~ExpansionOf(ln).err
    /\ ExpansionOf(ln).m = <<>>

\* C12 (as claimed): when the source patterns of ls, get, rm, rmdir, cp or mv
\* expand to no match, the command prints a diagnostic line, changes nothing
\* on the remote and the loop goes on.
C12_ZeroMatchesAreReported ==
    [][\A ln \in Lines :
          (ExpandsToNothing(ln) /\ Submit(ln)) =>
              /\ out' # <<>>
              /\ remote' = remote
              /\ rcwd' = rcwd
              /\ pc' = "loop_top"]_vars

\* The paths of the calls of one operation, in the order they were issued
CallsOf(calls, op) ==
    LET sel == SelectSeq(calls, LAMBDA c : c.op = op) IN
    [j \in 1..Len(sel) |-> sel[j].path]

\* The line is `get SRC DST`, SRC expands to several matches and DST is an
\* existing local directory
MultiMatchIntoDirectory(ln) ==
    /\ Len(TokensOf(ln)) = 3
    /\ TokensOf(ln)[1] = "get"
    /\ SourcesOf(TokensOf(ln)) # <<>>
    /\ ~ExpansionOf(ln).err
    /\ Len(ExpansionOf(ln).m) > 1
    /\ LocalIsDir(lfs, PurePath(TokensOf(ln)[3]))

\* No fetch of a matched non-directory entry into the directory fails
NoFetchFails(ms, dst) ==
    \A i \in 1..Len(ms) :
        ~is_dir(ms[i].attr) =>
            ~SftpGet(Fs, lfs, ms[i].path, JoinName(dst, PathName(ms[i].path))).err

\* How many of the calls are a get of the path
Fetches(calls, path) == Cardinality({k \in 1..Len(calls) : calls[k].op = "get" /\ calls[k].path = path})

\* C22: for a get whose source expands to several matches into an existing
\* local directory, every matched directory is skipped with an inline error and
\* no fetch, and every matched non-directory entry, before or after a skipped
\* directory in the match list, is fetched exactly once, provided no fetch fails
C22_GetSkipsDirectoriesAndFetchesTheRest ==
    [][\A ln \in Lines :
          (/\ user_input' = ln
           /\ MultiMatchIntoDirectory(ln)
           /\ NoFetchFails(ExpansionOf(ln).m, PurePath(TokensOf(ln)[3]))
           /\ Submit(ln)) =>
              /\ pc' = "loop_top"
              /\ \A i \in 1..Len(ExpansionOf(ln).m) :
                    \E m \in {ExpansionOf(ln).m[i]} :
                       IF is_dir(m.attr)
                       THEN /\ \E k \in 1..Len(out') : out'[k] = Red(StrOf(m.path) \o " is a directory")
                            /\ Fetches(rpc', m.path) = 0
                       ELSE Fetches(rpc', m.path) = 1]_vars

\* `get * out` has run where a is a directory and b.txt, c are files: a was
\* skipped and reported, b.txt and c, which come after it, were fetched
C22_Witness ==
    /\ user_input = "get * out"
    /\ pc = "loop_top"
    /\ remote = DirFirstTree
    /\ out[1] = Red("a is a directory")
    /\ CallsOf(rpc, "get") = <<PurePath("b.txt"), PurePath("c")>>
    /\ <<"out", "b.txt">> \in DOMAIN lfs /\ <<"out", "c">> \in DOMAIN lfs
    /\ <<"out", "a">> \notin DOMAIN lfs

\* The line is a well-formed rm whose match list holds a directory
RmMeetsDirectory(ln) ==
    /\ TokensOf(ln) # <<>>
    /\ TokensOf(ln)[1] = "rm"
    /\ SourcesOf(TokensOf(ln)) # <<>>
    /\ ~ExpansionOf(ln).err
    /\ \E i \in 1..Len(ExpansionOf(ln).m) : is_dir(ExpansionOf(ln).m[i].attr)

FirstDirectory(ms) ==
    CHOOSE i \in 1..Len(ms) : is_dir(ms[i].attr) /\ \A j \in 1..(i - 1) : ~is_dir(ms[j].attr)

\* remove was called on ms[1..i-1] in order and on nothing else, the error for
\* ms[i] was printed, and what was removed is gone
RemovedUpTo(ms, i) ==
    /\ CallsOf(rpc', "remove") = [j \in 1..(i - 1) |-> ms[j].path]
    /\ \E k \in 1..Len(out') : out'[k] = Red(StrOf(ms[i].path) \o ": is a directory")
    /\ remote' = Without(remote, {Resolve(Fs, ms[j].path) : j \in 1..(i - 1)})
    /\ pc' = "loop_top"

\* The entries before the i-th match are pairwise different entries
DistinctBefore(ms, i) ==
    \A j, k \in 1..(i - 1) : j # k => Resolve(Fs, ms[j].path) # Resolve(Fs, ms[k].path)

MvLine(ln) ==
    /\ TokensOf(ln) # <<>>
    /\ TokensOf(ln)[1] = "mv"
    /\ SourcesOf(TokensOf(ln)) # <<>>
    /\ ~ExpansionOf(ln).err

RemoteIsDir(path) ==
    LET p == Resolve(Fs, path) IN p # NoPath /\ remote[p] = "dir"

\* The renames issued, as <<from, to>> pairs in the order they were issued
RenamesOf(calls) ==
    LET sel == SelectSeq(calls, LAMBDA c : c.op = "rename") IN
    [j \in 1..Len(sel) |-> <<sel[j].path, sel[j].to>>]

\* One rename per match: into dst when dst is a directory, onto dst when not
RenamesFor(ms, dst) ==
    [j \in 1..Len(ms) |->
        <<ms[j].path,
          IF RemoteIsDir(dst) THEN JoinName(dst, PathName(ms[j].path)) ELSE dst>>]

MvRefused(ms, dst) ==
    /\ \E k \in 1..Len(out') : out'[k] = Red(StrOf(dst) \o ": Not a directory")
    /\ RenamesOf(rpc') = <<>>
    /\ remote' = remote

\* C14 (as claimed): mv of several matches to something that is not a remote
\* directory prints "Not a directory" and renames nothing; in every other
\* case it issues exactly one rename per match, to dst/<name> when dst is a
\* directory and to dst when it is not.
C14_MvRenamesEveryMatchOrNone_AsClaimed ==
    [][\A ln \in Lines :
          (user_input' = ln /\ MvLine(ln) /\ Submit(ln)) =>
              LET ms == ExpansionOf(ln).m
                  dst == PurePath(Last(TokensOf(ln)))
              IN IF Len(ms) > 1 /\ ~RemoteIsDir(dst)
                 THEN MvRefused(ms, dst)
                 ELSE RenamesOf(rpc') = RenamesFor(ms, dst)]_vars

\* C14 (amended): the same, except that the renames stop at the first one
\* that fails: the renames issued are the first n of the expected ones, and
\* n is below the number of matches only when an I/O error was reported.
C14_MvRenamesEveryMatchOrNone ==
    [][\A ln \in Lines :
          (user_input' = ln /\ MvLine(ln) /\ Submit(ln)) =>
              LET ms == ExpansionOf(ln).m
                  dst == PurePath(Last(TokensOf(ln)))
              IN IF Len(ms) > 1 /\ ~RemoteIsDir(dst)
                 THEN MvRefused(ms, dst)
                 ELSE \E n \in 0..Len(ms) :
                        /\ RenamesOf(rpc') = SubSeq(RenamesFor(ms, dst), 1, n)
                        /\ n < Len(ms) => (n > 0 /\ out' = <<Red("IOError")>>)
                        /\ out' = <<>> => n = Len(ms)]_vars

\* `mv a b.txt c` has renamed both files into the directory c
C14_Witness ==
    /\ user_input = "mv a b.txt c"
    /\ turn = 1
    /\ pc = "loop_top"
    /\ RenamesOf(rpc) = << <<PurePath("a"), PurePath("c/a")>>,
                           <<PurePath("b.txt"), PurePath("c/b.txt")>> >>
    /\ out = <<>>
    /\ DOMAIN remote = {<<>>, <<"c">>, <<"c", "a">>, <<"c", "b.txt">>, <<"c", "d">>}

\* C15: no staging directory of cp outlives the handler: whether every file
\* was copied, a fetch failed or an upload failed, none exists once cp has
\* returned, however many cp commands the session has run.
C15_NoStagingDirectoryRemains == tmp = 0

\* A cp whose upload failed after the staging directory was made has returned
C15_Witness ==
    /\ user_input = "cp a nope/x"
    /\ CallsOf(rpc, "get") = <<PurePath("a")>>
    /\ CallsOf(rpc, "put") # <<>>
    /\ out = <<Red("IOError")>>
    /\ pc = "loop_top"
    /\ tmp = 0

\* The rest of a line after the command word
AliasArgs == {"", " c", " *", " a b.txt", " nope", " -l", " -x", " --help", " */d", " \"abc"}

\* C16: whatever follows it, `ll` (and `l`) is dispatched as `ls -l -h` is: the
\* same handler gets the same tokens, so the loop body issues the same remote
\* calls, prints the same and ends in the same state; a line whose first
\* token is no alias keeps its tokens.
C16_AliasDispatchesAsItsExpansion ==
    pc = "input" =>
        /\ \A al \in {"ll", "l"} : \A a \in AliasArgs :
              Dispatch(al \o a) = Dispatch("ls -l -h" \o a)
        /\ \A ln \in Lines :
              LET sp == shlex_split(Strip(ln)) IN
              (~sp.err /\ sp.tokens # <<>> /\ Head(sp.tokens) \notin {"ll", "l"})
                  => ExpandAlias(sp.tokens) = sp.tokens

\* `ll c` has been run: it printed the long listing of c with readable sizes
C16_Witness ==
    /\ user_input = "ll c"
    /\ turn = 1
    /\ remote = ExampleTree
    /\ out = <<[kind |-> "long-h", text |-> "d", names |-> <<>>]>>
    /\ out = Dispatch("ls -l -h c").w.out
    /\ rpc = Dispatch("ls -l -h c").w.rpc

\* What the parser of each handler accepts: its flags and how many positionals
ParserOf(command) ==
    CASE command = "ls" -> [flags |-> {"-l", "-h"}, minpos |-> 0, maxpos |-> -1]
      [] command = "cd" -> [flags |-> {}, minpos |-> 1, maxpos |-> 1]
      [] command \in {"get", "put"} -> [flags |-> {}, minpos |-> 1, maxpos |-> 2]
      [] command \in {"rm", "rmdir", "mkdir"} -> [flags |-> {}, minpos |-> 1, maxpos |-> -1]
      [] command = "cp" -> [flags |-> {}, minpos |-> 2, maxpos |-> 2]
      [] command = "mv" -> [flags |-> {}, minpos |-> 2, maxpos |-> -1]

\* The line names a handler and its arguments do not parse, or ask for help
ParseFailsOrHelp(ln) ==
    /\ TokensOf(ln) # <<>>
    /\ TokensOf(ln)[1] \in COMMANDS
    /\ LET ps == ParserOf(TokensOf(ln)[1])
           p == ArgParse(Tail(TokensOf(ln)), ps.flags, ps.minpos, ps.maxpos)
       IN p.err \/ p.help

\* C17: a handler whose arguments do not parse, or that is given --help,
\* issues no remote call, leaves the remote tree, the working directory and
\* the local tree as they were, and the loop goes on to the next prompt.
C17_ParseFailureHasNoEffect ==
    [][\A ln \in Lines :
          (user_input' = ln /\ ParseFailsOrHelp(ln) /\ Submit(ln)) =>
              /\ rpc' = <<>>
              /\ remote' = remote
              /\ rcwd' = rcwd
              /\ lfs' = lfs
              /\ out' # <<>>
              /\ pc' = "loop_top"]_vars

\* `rm --help a` has printed the help text and removed nothing
C17_Witness ==
    /\ user_input = "rm --help a"
    /\ turn = 1
    /\ out = <<[kind |-> "help", text |-> "", names |-> <<>>]>>
    /\ rpc = <<>>
    /\ <<"a">> \in DOMAIN remote
    /\ pc = "loop_top"

\* C18: while a line is awaited, end-of-input ends the session in the exited
\* state with typer.Exit() (exit code 0) and nothing else happens; an
\* interrupt drops the line only: no command runs, nothing is printed by a
\* handler, and the loop goes back to its top, from where the only step is to
\* the next prompt; nothing leaves the exited state.
C18_EndOfInputExitsInterruptReprompts ==
    [][/\ EndOfInput =>
             /\ pc' = "exited" /\ exc' = "Exit"
             /\ UNCHANGED <<remote, rcwd, lfs, out, rpc>>
       /\ Interrupt =>
             /\ pc' = "loop_top" /\ exc' = "none"
             /\ UNCHANGED <<remote, rcwd, lfs, tmp, out, rpc, user_input>>
       /\ pc = "loop_top" => pc' = "prompt"
       /\ pc = "exited" => FALSE]_vars

\* The second line was interrupted: the loop is back at its top, `cd c` of the
\* first turn is still the last command run, and the cache still holds the
\* directory shown by the prompt of the interrupted turn
C18_Witness ==
    /\ pc = "loop_top"
    /\ turn = 2
    /\ exc = "none"
    /\ user_input = "cd c"
    /\ rcwd = <<"c">>
    /\ cache.cwd = <<rcwd>>

\* How many remote listdir calls a turn has issued for a path: those the cache
\* issued (for the prompt and for completion) and those the command issued
ListdirsOfTurn(cache_calls, command_calls, path) ==
    Count(cache_calls, Call("listdir", path))
    + Cardinality({k \in 1..Len(command_calls) :
                      command_calls[k].op = "listdir" /\ command_calls[k].path = path})

\* The paths a turn has listed
ListedInTurn(cache_calls, command_calls) ==
    {c.path : c \in {d \in DOMAIN cache_calls : d.op = "listdir"}}
    \cup {command_calls[k].path : k \in {j \in 1..Len(command_calls) : command_calls[j].op = "listdir"}}

\* C24 (as claimed): glob resolution goes through the DirectoryCache of the
\* turn, so that a turn issues at most one remote listdir call for a directory,
\* whatever patterns the line expands and whatever completion has listed
\* before in the turn
C24_OneListdirPerDirectoryPerTurn ==
    [][\A ln \in Lines :
          (user_input' = ln /\ Submit(ln)) =>
              \A path \in ListedInTurn(c_rpc', rpc') : ListdirsOfTurn(c_rpc', rpc', path) <= 1]_vars

\* The same for the calls of the command alone: no pattern list makes a
\* command list a directory twice
C24_OneListdirPerDirectoryPerCommand ==
    [][\A ln \in Lines :
          (user_input' = ln /\ Submit(ln)) =>
              \A path \in ListedInTurn(NoCalls, rpc') : ListdirsOfTurn(NoCalls, rpc', path) <= 1]_vars

\* The same for lines of one pattern: what completion has listed is not
\* listed again by the command
C24_CompletionListingIsReused ==
    [][\A ln \in Lines :
          (user_input' = ln /\ Len(SourcesOf(TokensOf(ln))) = 1 /\ TokensOf(ln)[1] = "ls"
           /\ ~HasWildcard(SourcesOf(TokensOf(ln))[1]) /\ Submit(ln)) =>
              \A path \in ListedInTurn(c_rpc', rpc') : ListdirsOfTurn(c_rpc', rpc', path) <= 1]_vars

\* The line printed for a working directory
CwdLine(dir) == [kind |-> "cwd", text |-> StrOf([root |-> TRUE, segs |-> dir]), names |-> <<>>]

\* C26: in every turn the working directory that the prompt shows and that
\* pwd prints is the remote working directory at the start of the turn, and it
\* is obtained with at most one remote getcwd call in the turn; so the prompt
\* after a successful cd shows the new directory and the prompt after a failed
\* cd the unchanged one
C26_PromptAndPwdShowTheRemoteDirectory ==
    [][/\ pc' = "input" => cache'.cwd = <<rcwd'>>
       /\ Count(c_rpc', Call("getcwd", PurePath("."))) <= 1
       /\ (user_input' = "pwd" /\ Submit("pwd")) =>
              /\ out' = <<CwdLine(rcwd)>>
              /\ rcwd' = rcwd
              /\ rpc' = <<>>]_vars

\* The prompt of the turn after a successful `cd c` shows c, and pwd in that
\* turn has printed it
C26_Witness ==
    /\ turn = 2
    /\ user_input = "pwd"
    /\ rcwd = <<"c">>
    /\ cache.cwd = << <<"c">> >>
    /\ out = <<CwdLine(<<"c">>)>>
    /\ Count(c_rpc, Call("getcwd", PurePath("."))) = 1

\* The prompt of the turn after a failed cd shows the unchanged directory
C26_WitnessFailedCd ==
    /\ turn = 1
    /\ pc = "input"
    /\ user_input = "cd nope"
    /\ out = <<Red("IOError")>>
    /\ cache.cwd = << <<>> >>

\* The commands that take no argument
BareCommands == {"exit", "quit", "pwd"}

\* The words of the line as typed, before aliases are expanded
WordsOf(ln) == IF shlex_split(Strip(ln)).err THEN <<>> ELSE shlex_split(Strip(ln)).tokens

Plain(text) == [kind |-> "plain", text |-> text, names |-> <<>>]

\* A bare command followed by at least one more word is not executed: "too
\* many args" is printed and the loop goes on
BareCommandWithArgsIsRefused(ln) ==
    (Len(WordsOf(ln)) >= 2 /\ WordsOf(ln)[1] \in BareCommands) =>
        /\ out' = <<Red(WordsOf(ln)[1] \o ": too many args")>>
        /\ pc' = "loop_top"
        /\ exc' = "none"
        /\ rpc' = <<>>
        /\ c_rpc' = c_rpc

\* A first word that is no table command, no alias and no bare command is
\* reported as unrecognized, with no remote call, and the loop goes on
UnknownCommandIsReported(ln) ==
    (/\ WordsOf(ln) # <<>>
     /\ WordsOf(ln)[1] \notin COMMANDS
     /\ WordsOf(ln)[1] \notin DOMAIN ALIAS
     /\ WordsOf(ln)[1] \notin BareCommands) =>
        /\ out' = <<Plain("Unrecognized command: " \o ln)>>
        /\ pc' = "loop_top"
        /\ exc' = "none"
        /\ rpc' = <<>>
        /\ c_rpc' = c_rpc

\* C28 (as claimed): a line whose first word is exit, quit or pwd followed by
\* at least one more word does not execute the command: "too many args" is
\* printed and the loop goes on; a first word that is neither a table command
\* nor an alias nor a bare command gives "Unrecognized command", no remote call
\* is issued and the loop goes on
C28_ExtraArgsAndUnknownCommands ==
    [][\A ln \in Lines :
          (user_input' = ln /\ Submit(ln)) =>
              BareCommandWithArgsIsRefused(ln) /\ UnknownCommandIsReported(ln)]_vars

\* The first half alone
C28_BareCommandsWithArgsAreRefused ==
    [][\A ln \in Lines : (user_input' = ln /\ Submit(ln)) => BareCommandWithArgsIsRefused(ln)]_vars

\* The second half for every first word but help
C28_UnknownButHelpIsReported ==
    [][\A ln \in Lines :
          (user_input' = ln /\ WordsOf(ln) # <<"help">> /\ Submit(ln)) =>
              UnknownCommandIsReported(ln)]_vars

\* `exit x` was refused and the session goes on
C28_ExitWithArgReached ==
    /\ user_input = "exit x"
    /\ pc = "loop_top"
    /\ out = <<Red("exit: too many args")>>

(***************************************************************************)
(* Properties of the tokenizer (checked under TokSpec)                     *)
(***************************************************************************)
\* A line of unquoted words: no quote and no backslash in it
Unquoted(ln) == \A k \in 1..Len(ln) : ~IsQuote(SubSeq(ln, k, k)) /\ SubSeq(ln, k, k) # "\\"

\* line[start:end] of a token is its text
SpanHoldsText(ln, t) ==
    /\ 0 <= t.start
    /\ t.end <= Len(ln)
    /\ SubSeq(ln, t.start + 1, t.end) = t.text

\* C19: for every line of unquoted words that tokenize turns into tokens
\* t1..tn, each token has line[start:end] = text and starts at or after the
\* end of the token before it: the spans are ordered and do not overlap, also
\* when the text of a token occurs earlier in the line
C19_TokenSpansAreOrdered ==
    (t_pc # "start" /\ ~t_tokens.err /\ Unquoted(t_line)) =>
        \A k \in 1..Len(t_tokens.tokens) :
            /\ SpanHoldsText(t_line, t_tokens.tokens[k])
            /\ k > 1 => t_tokens.tokens[k].start >= t_tokens.tokens[k - 1].end

\* The same statement for tokenize of sftp_repl.completions alone
C19_PackagedTokenizeOrdersSpans ==
    t_tokens.module = "sftp_repl.completions" => C19_TokenSpansAreOrdered

\* What tokenize of sftp_repl.completions does keep: line[start:end] = text
C19_PackagedTokenizeSpansHoldText ==
    (t_tokens.module = "sftp_repl.completions" /\ ~t_tokens.err /\ Unquoted(t_line)) =>
        \A k \in 1..Len(t_tokens.tokens) : SpanHoldsText(t_line, t_tokens.tokens[k])

\* Where the words of a line are: the 0-based <<first, past-the-last>> offsets of
\* each maximal run of characters that are not blanks or that stand between
\* quotes, the quote characters included
RECURSIVE WordsFrom(_, _, _, _, _, _)
WordsFrom(ln, k, inWord, quote, first, acc) ==
    IF k > Len(ln) THEN (IF inWord THEN Append(acc, <<first, Len(ln)>>) ELSE acc)
    ELSE LET ch == SubSeq(ln, k, k)
             begun == IF inWord THEN first ELSE k - 1
         IN
         IF quote # "" THEN WordsFrom(ln, k + 1, TRUE, IF ch = quote THEN "" ELSE quote, first, acc)
         ELSE IF IsSpace(ch)
              THEN WordsFrom(ln, k + 1, FALSE, "", 0,
                             IF inWord THEN Append(acc, <<first, k - 1>>) ELSE acc)
         ELSE IF IsQuote(ch) THEN WordsFrom(ln, k + 1, TRUE, ch, begun, acc)
         ELSE WordsFrom(ln, k + 1, TRUE, "", begun, acc)

Occurrences(ln) == WordsFrom(ln, 1, FALSE, "", 0, <<>>)

\* The cursor offset of a call locate_full_token(tokens, offset, offset)
CursorAt(offset) == t_pc = "located" /\ t_off = <<offset, offset>>

\* tokenize yields one token for each word of a line with balanced quoting
TokenPerWord == (t_pc # "start" /\ ~t_tokens.err) => Len(t_tokens.tokens) = Len(Occurrences(t_line))

\* For an offset strictly inside the occurrence of a token, locate_full_token
\* returns that token
C20_InsideATokenLocatesIt ==
    \A offset \in 0..Len(t_line) : CursorAt(offset) =>
        \A k \in 1..Len(t_tokens.tokens) :
            LET word == Occurrences(t_line)[k] IN
            (word[1] < offset /\ offset < word[2]) =>
                t_ret = [err |-> FALSE, token |-> t_tokens.tokens[k]]

\* For an offset at a span boundary shared by two tokens, locate_full_token
\* returns the earlier token, the one ending there
C20_SharedBoundaryLocatesTheEarlier ==
    \A offset \in 0..Len(t_line) : CursorAt(offset) =>
        \A i, j \in 1..Len(t_tokens.tokens) :
            (i < j /\ t_tokens.tokens[i].end = offset /\ t_tokens.tokens[j].start = offset) =>
                t_ret = [err |-> FALSE, token |-> t_tokens.tokens[i]]

\* C20: for every line with balanced quoting, every token t of tokenize(line)
\* and every cursor offset strictly inside the occurrence of t in the line,
\* locate_full_token(tokenize(line), offset, offset) returns t; for an offset at
\* a span boundary shared by two tokens it returns the earlier token ending there
C20_LocateReturnsTheTokenUnderTheCursor ==
    C20_InsideATokenLocatesIt /\ C20_SharedBoundaryLocatesTheEarlier

\* The first half of the statement for unquoted lines and tokenize of
\* sftp_repl.completions alone
C20_PackagedUnquotedInsideATokenLocatesIt ==
    (t_tokens.module = "sftp_repl.completions" /\ Unquoted(t_line)) => C20_InsideATokenLocatesIt

(***************************************************************************)
(* Properties of human_readable_size (checked under SizeSpec)              *)
(***************************************************************************)
\* The unit a size is scaled by
UnitOf(size) == IF size < 1024 THEN 1 ELSE IF size < 1024 ^ 2 THEN 1024 ELSE 1024 ^ 2

\* The text has a decimal point
HasDecimalPlace(text) == \E k \in 1..Len(text) : SubSeq(text, k, k) = "."

\* The examples of the specification
SizeExamples ==
    (0 :> "0B") @@ (1023 :> "1023B") @@ (1024 :> "1K") @@ (1536 :> "1.5K")
    @@ (10485760 :> "10M") @@ (11534336 :> "11M")

\* C21: human_readable_size maps 0 to "0B", 1023 to "1023B", 1024 to "1K",
\* 1536 to "1.5K", 10485760 to "10M" and 11534336 to "11M"; no decimal place is
\* printed once the scaled value is at least 10 units or the size is below 1024
\* bytes, and one decimal place is printed otherwise
C21_HumanReadableSizeExamples ==
    h_done =>
        /\ h_size \in DOMAIN SizeExamples => h_out = SizeExamples[h_size]
        /\ HasDecimalPlace(h_out) <=> ~(h_size >= 10 * UnitOf(h_size) \/ h_size < 1024)

\* The examples that the code does produce
C21_ExamplesThatHold ==
    (h_done /\ h_size \in {0, 1023, 1536, 11534336}) => h_out = SizeExamples[h_size]

\* The rule that the code follows: no decimal place above 10 units, not at 10
C21_DecimalPlaceUpToTenUnits ==
    h_done => (HasDecimalPlace(h_out) <=> ~(h_size > 10 * UnitOf(h_size) \/ h_size < 1024))

(***************************************************************************)
(* Properties of a transfer (checked under TransferSpec)                   *)
(***************************************************************************)
\* C23: when a file has been transferred by get or put without error, the
\* progress sink has received at least one report, and its last report has
\* completed = total > 0; for a file of length 0 the report delivered is the
\* synthetic <<1, 1>>, whether the transfer never called the callback or called
\* it with a total of 0
C23_ProgressEndsComplete ==
    x_pc = "done" =>
        /\ progress # <<>>
        /\ progress[Len(progress)][1] = progress[Len(progress)][2]
        /\ progress[Len(progress)][2] > 0
        /\ x_size = 0 => progress = << <<1, 1>> >>

\* An empty file was transferred and the callback was never called
C23_Witness ==
    /\ x_pc = "done"
    /\ x_size = 0
    /\ ~update_called
    /\ progress = << <<1, 1>> >>

\* An empty file was transferred and the callback was called with a total of 0
C23_WitnessCallbackWithZero ==
    /\ x_pc = "done"
    /\ x_size = 0
    /\ update_called
    /\ progress = << <<1, 1>> >>

\* A file of several bytes was transferred in several chunks
C23_WitnessChunks ==
    /\ x_pc = "done"
    /\ x_size > 1
    /\ Len(progress) > 1

\* The characters at which readline breaks words, of those drawn
IsWordBreak(ch) == IsSpace(ch) \/ IsQuote(ch)

\* An interval readline can report for the line: end is the cursor, begin
\* follows the last word break before the cursor
LineEditorCanReport(ln, begin, end) ==
    /\ 0 <= begin /\ begin <= end /\ end <= Len(ln)
    /\ \A k \in (begin + 1)..end : ~IsWordBreak(SubSeq(ln, k, k))
    /\ begin > 0 => IsWordBreak(SubSeq(ln, begin, begin))

\* file_completions_for_text of sftp_repl.completions has tokenized the line
\* and looked for the token of an interval that readline can report
LocatedForTheLineEditor ==
    /\ t_pc = "located"
    /\ t_tokens.module = "sftp_repl.completions"
    /\ LineEditorCanReport(t_line, t_off[1], t_off[2])

\* C29 (as claimed): for every line with balanced quoting (the empty line, a
\* line that ends in a blank and a line in which the text of a token occurs
\* earlier included) and every interval the line editor can report, neither
\* assertion of locate_full_token fails
C29_LocateNeverFailsItsAssertions == LocatedForTheLineEditor => ~t_ret.err

\* The span of some token holds begin: "unreachable code" is not reached
C29_SomeSpanHoldsBegin ==
    LocatedForTheLineEditor =>
        \E k \in 1..Len(t_tokens.tokens) :
            t_tokens.tokens[k].start <= t_off[1] /\ t_off[1] <= t_tokens.tokens[k].end

\* Where the span of some token holds begin, end lies within that token
C29_EndLiesWithinTheToken ==
    (LocatedForTheLineEditor /\ t_ret.err) =>
        ~\E k \in 1..Len(t_tokens.tokens) :
            t_tokens.tokens[k].start <= t_off[1] /\ t_off[1] <= t_tokens.tokens[k].end

\* For lines of unquoted words whose cursor is in or at the end of a word that
\* does not occur earlier in the line, no assertion fails
C29_HoldsInsideWordsThatDoNotRecur ==
    (/\ LocatedForTheLineEditor
     /\ Unquoted(t_line)
     /\ t_off[1] < t_off[2]
     /\ Find(t_line, SubSeq(t_line, t_off[1] + 1, t_off[2])) = t_off[1]
     /\ \A k \in 1..Len(t_tokens.tokens) :
           Find(t_line, t_tokens.tokens[k].text) = Occurrences(t_line)[k][1]) => ~t_ret.err

(***************************************************************************)
(* Properties of completion (checked under Spec)                           *)
(***************************************************************************)
\* The words of the line that hold the cursor interval of the query
WordsUnderCursor(q) ==
    {k \in 1..Len(Occurrences(q.line)) :
        Occurrences(q.line)[k][1] <= q.begidx /\ q.endidx <= Occurrences(q.line)[k][2]}

\* The text of the word under the cursor (the queries are unquoted lines)
WordUnderCursor(q) ==
    LET k == CHOOSE j \in WordsUnderCursor(q) : TRUE IN
    SubSeq(q.line, Occurrences(q.line)[k][1] + 1, Occurrences(q.line)[k][2])

\* parent and partial of the word: the whole word is the parent when the text
\* to complete is empty
ParentOf(q) ==
    IF q.begidx = q.endidx THEN PurePath(WordUnderCursor(q))
    ELSE PathParent(PurePath(WordUnderCursor(q)))

PartialOf(q) == IF q.begidx = q.endidx THEN "" ELSE PathName(PurePath(WordUnderCursor(q)))

\* The names the query should offer, read from the remote tree: the entries of
\* parent that start with partial, a directory with "/" after its name; none
\* when parent is not a directory
NamesToOffer(q) ==
    LET dir == Resolve(Fs, ParentOf(q)) IN
    IF dir = NoPath \/ remote[dir] # "dir" THEN {}
    ELSE {IF remote[t] = "dir" THEN t[Len(t)] \o "/" ELSE t[Len(t)] :
             t \in {u \in DOMAIN remote : /\ Len(u) = Len(dir) + 1
                                          /\ SubSeq(u, 1, Len(dir)) = dir
                                          /\ StartsWith(u[Len(u)], PartialOf(q))}}

\* The name at an index of the ascending order, None past the last
NameAt(names, index) ==
    IF index >= Cardinality(names) THEN None
    ELSE <<CHOOSE n \in names : Cardinality({m \in names : StrLess(m, n)}) = index>>

\* C27 (as claimed): for a completion query on a word parent/partial,
\* complete(text, 0), complete(text, 1), ... return in ascending order exactly
\* the names of the entries of parent that start with partial, a directory with
\* "/" after its name, and None from the number of candidates on; there is no
\* candidate when parent is not a directory
C27_CompleteOffersTheEntriesOfParent ==
    (pc = "input" /\ c_op.op = "complete" /\ WordsUnderCursor(c_op.q) # {}) =>
        /\ ~c_op.raised
        /\ c_ret = NameAt(NamesToOffer(c_op.q), c_op.state)

\* The same for the queries whose word does not occur earlier in the line
C27_HoldsWhereTheWordDoesNotRecur ==
    (c_op.op = "complete" /\ c_op.q.line # "cd c") => C27_CompleteOffersTheEntriesOfParent

\* complete("", 1) on `ls ./` has returned the second name of the working
\* directory
C27_SecondOfSeveralReached ==
    /\ pc = "input"
    /\ c_op.op = "complete" /\ c_op.q.line = "ls ./" /\ c_op.state = 1
    /\ Cardinality(NamesToOffer(c_op.q)) > 2
    /\ c_ret # None

====
